---- MODULE Spec2Model ----
(***************************************************************************)
(* State-machine model of the MCP connection hub (McpHub) and the query   *)
(* dispatcher (OpenAIAgent / OpenAIService / AnthropicService) of          *)
(* src/agent_client.py.                                                    *)
(*                                                                         *)
(* Every await of the Python code is a step of its own; the outcome of a  *)
(* remote operation (success, timeout, error, HTTP status) is chosen by   *)
(* the environment with \E.                                                *)
(***************************************************************************)
EXTENDS Integers, Sequences, FiniteSets, TLC

(***************************************************************************)
(* Bounds of the model.                                                    *)
(***************************************************************************)
MaxRetries == 1      \* largest retries argument passed to connect_to_server
MaxHandles == 2      \* child processes the environment lets the hub spawn
MaxBlocks == 2       \* content blocks / tool calls in one model response
MaxNest == 2         \* nesting depth of the values given to the transform
MaxRequests == 2     \* requests sent over one pipe transport
MaxLines == 2        \* lines the child writes to its stdout
MaxItems == 2        \* content items of one tool response
MaxTx == 2           \* transaction ids a response may name

(***************************************************************************)
(* Program constants.                                                      *)
(***************************************************************************)
connection_retries == 2     \* McpHub.__init__: self.connection_retries

Names == {"moveflow-aptos", "aux"}
default_server_name == "moveflow-aptos"
Kinds == {"stdio", "sse", "carrier-pigeon"}

None == "None"              \* Python's None (a string-valued field is unset)
NoArg == <<>>               \* an optional argument that was not supplied
Arg(r) == <<r>>             \* an optional argument supplied with value r

\* The value standing for "name is not a key of self.connections".
NoSession ==
    [transport |-> None, handle |-> 0, tools |-> None, status |-> "absent", error |-> ""]

VARIABLES
    \* ---- McpHub ----
    connections,    \* self.connections: name -> NoSession or a session record
    liveHandles,    \* contexts held open by self.exit_stack: records [id, name]
    closeReq,       \* handle ids that have received a close / shutdown request
    nextHandle,     \* id the next spawned child process gets
    \* ---- one call of connect_to_server ----
    cpc,            \* position in connect_to_server
    cName, cKind,   \* arguments name and config["transportType"]
    cArg,           \* the retries argument as passed (NoArg when omitted)
    retries,        \* local variable retries (after the default is applied)
    attempt,        \* local variable attempt
    cHandle,        \* handle spawned in the current attempt (0: none)
    cRes,           \* "running", or the return value "True" / "False" / None
    cOld,           \* handle of the session registered for cName at the call (0: none)
    cHad,           \* a session was registered for cName when the call began
    sleeps,         \* asyncio.sleep(1) calls made by this call
    tAttempts,      \* transport connects (spawn / GET) started by this call
    \* ---- one call of cleanup ----
    clpc,           \* position in cleanup
    clTodo,         \* snapshot list(self.connections.items()) still to visit
    clRaised,       \* cleanup ended by raising
    \* ---- one call of call_tool / read_resource ----
    hpc, hOp, hName,
    hOut,           \* what the transport answered
    hRes,           \* how the call ended
    hReached,       \* a request was handed to a transport
    \* ---- one call of OpenAIAgent.process_query ----
    qpc, qSvc, qName,
    qBlocks,        \* what the model emitted: sequence of "text" / "tool"
    qIdx,           \* block the loop of process_response is at
    final_text,     \* list final_text: records [blk, kind]
    qInflight,      \* block whose session.call_tool is awaited (0: none)
    qIssued,        \* blocks whose call was issued, in order
    qRes,           \* how process_query ended
    \* ---- one call of load_tools made from outside connect_to_server ----
    lpc, lName,
    lCached,        \* connection["tools"] held a list when the call began
    lReached,       \* a tools/list request was handed to a transport
    lRes,           \* what the call returned: "tools" or "empty"
    \* ---- further state of the calls above ----
    cLoad,          \* connect_to_server: how its load_tools ended (None: not run)
    cSawCleanup,    \* connect_to_server: a cleanup() returned while this call ran
    setupPc,        \* setup_mcp_server: "idle", "connecting", "done"
    sKey,           \* setup_mcp_server: APTOS_PRIVATE_KEY is set and not empty
    sRes,           \* setup_mcp_server: None, "hub" (returned) or "raised"
    hSilent,        \* call_tool / read_resource: the remote never answers
    qSent,          \* process_query: arguments handed to session.call_tool
    detached,       \* cleanup: shielded closes still running after their
                    \* awaiting caller was cancelled
    innerCancelled, \* cleanup: a close operation was cancelled along with its caller
    clCancelled,    \* cleanup: the task running this call was cancelled in an await
    \* ---- the numeric-safety transform applied to one value ----
    numPc,          \* "ready": numIn is given; "done": numOut is computed
    numFn,          \* which of the two copies of the transform was applied
    numIn, numOut,
    \* ---- one tool invocation of process_response, with its values ----
    dpc,            \* "idle", "called" (session.call_tool awaited), "folded", "raised"
    dSvc, dTool,    \* the AI service variant and the tool name
    dArgs,          \* the arguments the model emitted
    dFolded,        \* the value rendered into the annotation of the result
    \* ---- MCPClient: the pipe transport of client.py ----
    process,        \* self.process: None or the handle of the child
    running,        \* self.running
    request_map,    \* self.request_map: the ids with a pending (callback, future)
    futures,        \* per request id: the future created for it
    reqState,       \* per request id: where its send_request call is
    nextId,         \* the next request id (uuid4 never repeats)
    spc,            \* _start_server: position of the starting thread
    epc,            \* monitor_stderr: position of the stderr thread
    rpc,            \* _handle_responses: position of the response thread
    rLine,          \* _handle_responses: the line just read
    tpc,            \* stop: position of the stopping thread
    stopCalled,     \* stop() has been called
    killed,         \* stop() had to kill the child
    child,          \* the child process: "none", "alive", "dead"
    errBuf,         \* lines waiting in the child's stderr pipe
    errClosed,      \* the child has closed its stderr
    stdout,         \* lines waiting in the child's stdout pipe
    emitted,        \* lines the child has written to stdout so far
    \* ---- MoveFlowClient (client.py) ----
    read_only,      \* self.read_only
    available_tools,\* self._available_tools: None, "empty" ({}) or "tools"
    lastFetch,      \* how the last tools/list request ended: None, "ok", "failed"
    mpc,            \* position of the operation that is running
    mTool,          \* the tool the operation calls first
    mResp,          \* the response of that call
    mIdx,           \* _handle_transaction_preparation: the content item it is at
    mTx,            \* the transaction id in hand (0: none)
    mLog,           \* calls made by the operation, in order: [op, tx, out]
    mRes,           \* how the operation ended
    mRet            \* the response it returned

hubVars == <<connections, liveHandles, closeReq, nextHandle>>
connVars == <<cpc, cName, cKind, cArg, retries, attempt, cHandle, cRes, cOld, cHad,
              sleeps, tAttempts>>
cleanVars == <<clpc, clTodo, clRaised>>
callVars == <<hpc, hOp, hName, hOut, hRes, hReached>>
queryVars == <<qpc, qSvc, qName, qBlocks, qIdx, final_text, qInflight, qIssued, qRes>>

\* Variables added to the calls above, and the other parts of the system.
setupVars == <<setupPc, sKey, sRes>>
xConn == <<cLoad, cSawCleanup, setupVars>>
xClean == <<detached, innerCancelled, clCancelled>>
xCall == <<hSilent>>
xQuery == <<qSent, dpc, dSvc, dTool, dArgs, dFolded>>
loadVars == <<lpc, lName, lCached, lReached, lRes>>
numVars == <<numPc, numFn, numIn, numOut>>
pipeVars == <<process, running, request_map, futures, reqState, nextId, spc, epc, rpc,
              rLine, tpc, stopCalled, killed, child, errBuf, errClosed, stdout, emitted>>
flowVars == <<read_only, available_tools, lastFetch, mpc, mTool, mResp, mIdx, mTx,
              mLog, mRes, mRet>>
extNoConn == <<xClean, xCall, xQuery, loadVars, numVars, pipeVars, flowVars>>
extNoClean == <<xConn, xCall, xQuery, loadVars, numVars, pipeVars, flowVars>>
extNoCall == <<xConn, xClean, xQuery, loadVars, numVars, pipeVars, flowVars>>
extNoQuery == <<xConn, xClean, xCall, loadVars, numVars, pipeVars, flowVars>>
extNoLoad == <<xConn, xClean, xCall, xQuery, numVars, pipeVars, flowVars>>
extNoNum == <<xConn, xClean, xCall, xQuery, loadVars, pipeVars, flowVars>>
extNoPipe == <<xConn, xClean, xCall, xQuery, loadVars, numVars, flowVars>>
extNoFlow == <<xConn, xClean, xCall, xQuery, loadVars, numVars, pipeVars>>
flowRest == <<hubVars, connVars, cleanVars, callVars, queryVars, extNoFlow>>
extVars == <<xConn, xClean, xCall, xQuery, loadVars, numVars, pipeVars, flowVars>>
hubSide == <<hubVars, connVars, cleanVars, callVars, queryVars,
             extNoPipe>>
vars == <<hubVars, connVars, cleanVars, callVars, queryVars, extVars>>

(***************************************************************************)
(* Python / JSON values.  An integer is its sign and the decimal digits of *)
(* its magnitude (most significant first, no leading zero), so that values *)
(* beyond 2^53 keep every digit; a string is a sequence of characters.     *)
(***************************************************************************)
IntV(neg, digits) ==
    [t |-> "int", neg |-> neg, digits |-> digits, s |-> <<>>, keys |-> <<>>, items |-> <<>>]
StrV(chars) ==
    [t |-> "str", neg |-> FALSE, digits |-> <<>>, s |-> chars, keys |-> <<>>, items |-> <<>>]
ListV(items) ==
    [t |-> "list", neg |-> FALSE, digits |-> <<>>, s |-> <<>>, keys |-> <<>>, items |-> items]
DictV(keys, items) ==
    [t |-> "dict", neg |-> FALSE, digits |-> <<>>, s |-> <<>>, keys |-> keys, items |-> items]
NullV ==
    [t |-> "null", neg |-> FALSE, digits |-> <<>>, s |-> <<>>, keys |-> <<>>, items |-> <<>>]
\* True / False: the field neg holds the truth value.
BoolV(b) ==
    [t |-> "bool", neg |-> b, digits |-> <<>>, s |-> <<>>, keys |-> <<>>, items |-> <<>>]

\* 9007199254740991 = 2^53 - 1, the literal of the comparisons.
MAX_SAFE_INTEGER == <<9, 0, 0, 7, 1, 9, 9, 2, 5, 4, 7, 4, 0, 9, 9, 1>>

\* a > b for magnitudes given by their digits.
RECURSIVE DigitsGreater(_, _)
DigitsGreater(a, b) ==
    IF Len(a) # Len(b) THEN Len(a) > Len(b)
    ELSE IF a = <<>> THEN FALSE
    ELSE IF Head(a) # Head(b) THEN Head(a) > Head(b)
    ELSE DigitsGreater(Tail(a), Tail(b))

\* str(n) for an integer n: an optional minus sign and the decimal digits.
DigitChar(d) == <<"0", "1", "2", "3", "4", "5", "6", "7", "8", "9">>[d + 1]
str(v) ==
    StrV((IF v.neg THEN <<"-">> ELSE <<>>)
         \o [i \in 1..Len(v.digits) |-> DigitChar(v.digits[i])])

\* isinstance(obj, (int, float)) and abs(obj) > 9007199254740991
ExceedsSafe(obj) == obj.t = "int" /\ DigitsGreater(obj.digits, MAX_SAFE_INTEGER)

\* Mutant: lists are not walked.
RECURSIVE convert_bigint_dicts_only(_)
convert_bigint_dicts_only(obj) ==
    IF obj.t = "dict"
    THEN DictV(obj.keys, [i \in DOMAIN obj.items |-> convert_bigint_dicts_only(obj.items[i])])
    ELSE IF ExceedsSafe(obj) THEN str(obj)
    ELSE obj

\* OpenAIService._format_tool_result.convert_bigint
RECURSIVE convert_bigint(_)
convert_bigint(obj) ==
    IF obj.t = "dict"
    THEN DictV(obj.keys, [i \in DOMAIN obj.items |-> convert_bigint(obj.items[i])])
    ELSE IF obj.t = "list"
    THEN ListV([i \in DOMAIN obj.items |-> convert_bigint(obj.items[i])])
    ELSE IF ExceedsSafe(obj) THEN str(obj)
    ELSE obj

\* BaseAIService._call_tool.convert_args_bigint
RECURSIVE convert_args_bigint(_)
convert_args_bigint(obj) ==
    IF obj.t = "dict"
    THEN DictV(obj.keys, [i \in DOMAIN obj.items |-> convert_args_bigint(obj.items[i])])
    ELSE IF obj.t = "list"
    THEN ListV([i \in DOMAIN obj.items |-> convert_args_bigint(obj.items[i])])
    ELSE IF ExceedsSafe(obj) THEN str(obj)
    ELSE obj

(***************************************************************************)
(* McpHub.get_all_servers: the keys of self.connections.                   *)
(***************************************************************************)
get_all_servers(conns) == {n \in Names : conns[n] # NoSession}

NoConnections == [n \in Names |-> NoSession]

\* The single asynchronous task is not inside any hub or dispatcher call,
\* and the closes a cancelled cleanup left running have ended (they are
\* bounded by their wait_for timeouts of 0.5 s and 1 s).
AllIdle ==
    /\ cpc = "idle" /\ clpc = "idle" /\ hpc = "idle" /\ qpc = "idle" /\ lpc = "idle"
    /\ detached = {}
    /\ setupPc = "idle"

(***************************************************************************)
(* connect_to_server                                                       *)
(***************************************************************************)
\* retries = retries or self.connection_retries
EffectiveRetries(arg) ==
    IF arg = NoArg \/ arg = Arg(0) THEN connection_retries ELSE arg[1]

\* Mutant: a kind that is not stdio is taken to be sse.
TransportBranchElseSse(kind) ==
    IF kind = "stdio" THEN "spawn" ELSE "get"

\* Branch of the if / elif / else on config.get("transportType").
TransportBranch(kind) ==
    CASE kind = "stdio" -> "spawn"
      [] kind = "sse" -> "get"
      [] OTHER -> "unsupported"

\* Mutant: the session is stored before its status is set to connected.
NewSessionConnecting(kind, h) ==
    [transport |-> kind, handle |-> h, tools |-> None,
     status |-> "connecting", error |-> ""]

\* The dict stored in self.connections[name] on a successful connect.
NewSession(kind, h) ==
    [transport |-> kind, handle |-> h, tools |-> None,
     status |-> "connected", error |-> ""]

\* Mutant: the registered session is left in place.
RemoveExistingKeeps(conns, name) == conns

\* del self.connections[name] when name is registered.
RemoveExisting(conns, name) == [conns EXCEPT ![name] = NoSession]

\* connections[name]["status"] = "disconnected"; ["error"] = msg, guarded by
\* "if name in self.connections".
MarkDisconnected(conns, name, msg) ==
    IF conns[name] = NoSession THEN conns
    ELSE [conns EXCEPT ![name] = [@ EXCEPT !.status = "disconnected", !.error = msg]]

\* The two except clauses: the registry after an attempt raised exc.
AfterFailure(conns, name, exc, att, ret) ==
    IF exc = "timeout"
    THEN IF att > ret THEN MarkDisconnected(conns, name, "timeout") ELSE conns
    ELSE MarkDisconnected(conns, name, "error")

\* "if attempt > retries: return False, else: sleep(1)" of the except
\* clauses and of the non-200 branch.
LastAttempt(att, ret) == att > ret

\* A new call: locals are initialised (lines 309-311).
StartConnect(n, k, r) ==
    /\ AllIdle
    /\ cpc' = "head"
    /\ cName' = n /\ cKind' = k /\ cArg' = r
    /\ retries' = EffectiveRetries(r)
    /\ attempt' = 0
    /\ cHandle' = 0
    /\ cRes' = "running"
    /\ cHad' = (connections[n] # NoSession)
    /\ cOld' = IF connections[n] = NoSession THEN 0 ELSE connections[n].handle
    /\ sleeps' = 0 /\ tAttempts' = 0
    /\ UNCHANGED <<hubVars, cleanVars, callVars, queryVars>>
    /\ cLoad' = None /\ cSawCleanup' = FALSE
    /\ UNCHANGED setupVars
    /\ UNCHANGED extNoConn

\* while attempt <= retries: attempt += 1; remove the existing session;
\* branch on the transport kind.
ConnectHead ==
    /\ cpc = "head"
    /\ IF attempt <= retries
       THEN /\ attempt' = attempt + 1
            /\ connections' = RemoveExisting(connections, cName)
            /\ LET b == TransportBranch(cKind) IN
               IF b = "unsupported"
               THEN cpc' = "done" /\ cRes' = "False" /\ tAttempts' = tAttempts
               ELSE cpc' = b /\ cRes' = cRes /\ tAttempts' = tAttempts + 1
       ELSE \* the loop ends and the function falls off its end
            /\ cpc' = "done" /\ cRes' = None
            /\ UNCHANGED <<attempt, connections, tAttempts>>
    /\ cHandle' = 0
    /\ UNCHANGED <<liveHandles, closeReq, nextHandle, cName, cKind, cArg, retries,
                   cOld, cHad, sleeps, cleanVars, callVars, queryVars>>
    /\ UNCHANGED extVars

\* Whether the code puts a timeout on the awaits of an operation: the awaits
\* of connect_to_server are wrapped in asyncio.wait_for(..., timeout) or made
\* under ClientTimeout(total=timeout); call_tool, read_resource and
\* load_tools await the session bare.
HasTimeout(op) == op = "connect"

\* An attempt raised exc ("timeout": asyncio.TimeoutError, "error": any
\* other Exception): the except clauses of lines 428-450.
ConnectFailed(exc) ==
    /\ exc = "timeout" => HasTimeout("connect")
    /\ connections' = AfterFailure(connections, cName, exc, attempt, retries)
    /\ IF LastAttempt(attempt, retries)
       THEN cpc' = "done" /\ cRes' = "False"
       ELSE cpc' = "sleep" /\ cRes' = cRes

\* await wait_for(exit_stack.enter_async_context(stdio_client(params))).
ConnectSpawn(out) ==
    /\ cpc = "spawn"
    /\ IF out = "ok"
       THEN /\ nextHandle <= MaxHandles
            /\ liveHandles' = liveHandles \cup {[id |-> nextHandle, name |-> cName]}
            /\ nextHandle' = nextHandle + 1
            /\ cHandle' = nextHandle
            /\ cpc' = "session"
            /\ UNCHANGED <<connections, cRes>>
       ELSE /\ ConnectFailed(out)
            /\ UNCHANGED <<liveHandles, nextHandle, cHandle>>
    /\ UNCHANGED <<closeReq, cName, cKind, cArg, retries, attempt, cOld, cHad,
                   sleeps, tAttempts, cleanVars, callVars, queryVars>>
    /\ UNCHANGED extVars

\* await wait_for(exit_stack.enter_async_context(ClientSession(...))).
ConnectSession(out) ==
    /\ cpc = "session"
    /\ IF out = "ok"
       THEN cpc' = "init" /\ UNCHANGED <<connections, cRes>>
       ELSE ConnectFailed(out)
    /\ UNCHANGED <<liveHandles, closeReq, nextHandle, cName, cKind, cArg, retries,
                   attempt, cHandle, cOld, cHad, sleeps, tAttempts,
                   cleanVars, callVars, queryVars>>
    /\ UNCHANGED extVars

\* await wait_for(self.session.initialize()); then the session is stored.
ConnectInit(out) ==
    /\ cpc = "init"
    /\ IF out = "ok"
       THEN /\ connections' = [connections EXCEPT ![cName] = NewSession("stdio", cHandle)]
            /\ cpc' = "load"
            /\ cRes' = cRes
       ELSE ConnectFailed(out)
    /\ UNCHANGED <<liveHandles, closeReq, nextHandle, cName, cKind, cArg, retries,
                   attempt, cHandle, cOld, cHad, sleeps, tAttempts,
                   cleanVars, callVars, queryVars>>
    /\ UNCHANGED extVars

\* async with session.get(url): status 200 stores the session; another
\* status returns False on the last attempt and sleeps otherwise.
ConnectGet(out) ==
    /\ cpc = "get"
    /\ CASE out = "200" ->
              /\ connections' = [connections EXCEPT ![cName] = NewSession("sse", 0)]
              /\ cpc' = "load"
              /\ cRes' = cRes
         [] out = "non200" ->
              /\ IF LastAttempt(attempt, retries)
                 THEN cpc' = "done" /\ cRes' = "False"
                 ELSE cpc' = "sleep" /\ cRes' = cRes
              /\ UNCHANGED connections
         [] OTHER -> ConnectFailed(out)
    /\ UNCHANGED <<liveHandles, closeReq, nextHandle, cName, cKind, cArg, retries,
                   attempt, cHandle, cOld, cHad, sleeps, tAttempts,
                   cleanVars, callVars, queryVars>>
    /\ UNCHANGED extVars

\* Mutant: the empty list returned for a failed fetch is cached too.
LoadToolsCachesFailure(conns, name, out) ==
    IF conns[name] # NoSession
    THEN [conns EXCEPT ![name] = [@ EXCEPT !.tools = "Loaded"]]
    ELSE conns

\* load_tools: connection["tools"] = tools on success; a failure is
\* printed and [] returned; a missing connection returns [].
LoadTools(conns, name, out) ==
    IF conns[name] # NoSession /\ out = "ok"
    THEN [conns EXCEPT ![name] = [@ EXCEPT !.tools = "Loaded"]]
    ELSE conns

\* try: await wait_for(self.load_tools(name)) except TimeoutError: pass;
\* return True.
ConnectLoad(out) ==
    /\ cpc = "load"
    /\ connections' = LoadTools(connections, cName, out)
    /\ cpc' = "done"
    /\ cRes' = "True"
    /\ UNCHANGED <<liveHandles, closeReq, nextHandle, cName, cKind, cArg, retries,
                   attempt, cHandle, cOld, cHad, sleeps, tAttempts,
                   cleanVars, callVars, queryVars>>
    /\ cLoad' = out
    /\ UNCHANGED <<cSawCleanup, setupVars>>
    /\ UNCHANGED extNoConn

\* await asyncio.sleep(1), then the next pass of the loop.
ConnectSleep ==
    /\ cpc = "sleep"
    /\ sleeps' = sleeps + 1
    /\ cpc' = "head"
    /\ UNCHANGED <<hubVars, cName, cKind, cArg, retries, attempt, cHandle, cRes,
                   cOld, cHad, tAttempts, cleanVars, callVars, queryVars>>
    /\ UNCHANGED extVars

\* The call has returned; its locals are gone.
ConnectReturn ==
    /\ cpc = "done"
    /\ cpc' = "idle"
    /\ cName' = None /\ cKind' = None /\ cArg' = NoArg
    /\ retries' = 0 /\ attempt' = 0 /\ cHandle' = 0 /\ cRes' = None
    /\ cOld' = 0 /\ cHad' = FALSE /\ sleeps' = 0 /\ tAttempts' = 0
    /\ UNCHANGED <<hubVars, cleanVars, callVars, queryVars>>
    /\ cLoad' = None /\ cSawCleanup' = FALSE
    /\ UNCHANGED setupVars
    /\ UNCHANGED extNoConn

(***************************************************************************)
(* cleanup                                                                 *)
(***************************************************************************)
CloseOutcomes == {"ok", "TimeoutError", "CancelledError", "Exception"}

\* Mutant: the shielded waits catch Exception only.
CaughtInnerExceptionOnly(exc) == exc \in {"TimeoutError", "Exception"}

\* except (asyncio.TimeoutError, asyncio.CancelledError, Exception) around
\* each shielded wait_for (lines 612 and 629).
CaughtInner(exc) == exc \in {"TimeoutError", "CancelledError", "Exception"}

\* "except Exception" (lines 615 and 633): asyncio.TimeoutError is an
\* Exception, asyncio.CancelledError is a BaseException and is not caught.
CaughtOuter(exc) == exc \in {"TimeoutError", "Exception"}

\* Whether an exception raised by a shielded close leaves cleanup.
Escapes(exc) == exc # "ok" /\ ~CaughtInner(exc) /\ ~CaughtOuter(exc)

\* session and hasattr(session, "shutdown") for a stdio connection.
AsksShutdown(conn, hasShutdown) == conn.transport = "stdio" /\ hasShutdown

StartCleanup ==
    /\ AllIdle
    /\ clpc' = "loop"
    /\ clTodo' = get_all_servers(connections)
    /\ clRaised' = FALSE
    /\ UNCHANGED <<hubVars, connVars, callVars, queryVars>>
    /\ clCancelled' = FALSE
    /\ UNCHANGED <<detached, innerCancelled>>
    /\ UNCHANGED extNoClean

\* One pass of "for server_name, connection in list(connections.items())":
\* a stdio session with a shutdown method is shut down under shield +
\* wait_for(0.5); whatever that raises is swallowed.
CleanupSession(n, hasShutdown, out) ==
    /\ clpc = "loop"
    /\ n \in clTodo
    /\ LET conn == connections[n]
           asks == conn # NoSession /\ AsksShutdown(conn, hasShutdown)
       IN /\ closeReq' = IF asks THEN closeReq \cup {conn.handle} ELSE closeReq
          /\ IF asks /\ Escapes(out)
             THEN \* not caught: the finally clause runs and cleanup raises
                  /\ connections' = NoConnections
                  /\ clpc' = "done" /\ clRaised' = TRUE /\ clTodo' = {}
             ELSE /\ clTodo' = clTodo \ {n}
                  /\ UNCHANGED <<connections, clpc, clRaised>>
          /\ (~asks => out = "ok")
    /\ UNCHANGED <<liveHandles, nextHandle, connVars, callVars, queryVars>>
    /\ UNCHANGED extVars

\* self.connections = {} after the loop (line 619).
CleanupClear ==
    /\ clpc = "loop"
    /\ clTodo = {}
    /\ connections' = NoConnections
    /\ clpc' = "aclose"
    /\ UNCHANGED <<liveHandles, closeReq, nextHandle, clTodo, clRaised,
                   connVars, callVars, queryVars>>
    /\ UNCHANGED extVars

\* await shield(wait_for(exit_stack.aclose(), 1.0)): every context of the
\* stack is asked to exit; when aclose fails or times out, any of them may
\* be left open.  Then the finally clause empties the registry again.
CleanupAclose(out, left) ==
    /\ clpc = "aclose"
    /\ left \subseteq liveHandles
    /\ (out = "ok" => left = {})
    /\ closeReq' = closeReq \cup {h.id : h \in liveHandles}
    /\ liveHandles' = left
    /\ connections' = NoConnections
    /\ clRaised' = Escapes(out)
    /\ clpc' = "done"
    /\ UNCHANGED <<nextHandle, clTodo, connVars, callVars, queryVars>>
    /\ UNCHANGED extVars

\* Mutant: the waits are awaited without asyncio.shield.
UsesShieldNot == FALSE

\* The close operations are awaited as asyncio.shield(asyncio.wait_for(...)).
UsesShield == TRUE

\* What becomes of a close operation whose awaiting task is cancelled: under
\* shield it keeps running on its own, otherwise it is cancelled too.
InnerFate(shielded) == IF shielded THEN "running" ELSE "cancelled"

\* The task running cleanup is cancelled while it awaits the shutdown of
\* session n: CancelledError is raised at the await and handled by the
\* except clauses like any outcome of the shutdown.
CancelDuringShutdown(n) ==
    /\ clpc = "loop"
    /\ n \in clTodo
    /\ connections[n] # NoSession
    /\ AsksShutdown(connections[n], TRUE)
    /\ LET h == connections[n].handle
           fate == InnerFate(UsesShield)
       IN /\ closeReq' = closeReq \cup {h}
          /\ detached' = IF fate = "running"
                         THEN detached \cup {[what |-> "shutdown", h |-> h]}
                         ELSE detached
          /\ innerCancelled' = (innerCancelled \/ fate = "cancelled")
    /\ clCancelled' = TRUE
    /\ IF Escapes("CancelledError")
       THEN /\ connections' = NoConnections
            /\ clpc' = "done" /\ clRaised' = TRUE /\ clTodo' = {}
       ELSE /\ clTodo' = clTodo \ {n}
            /\ UNCHANGED <<connections, clpc, clRaised>>
    /\ UNCHANGED <<liveHandles, nextHandle, connVars, callVars, queryVars>>
    /\ UNCHANGED extNoClean

\* The task running cleanup is cancelled while it awaits exit_stack.aclose():
\* the finally clause empties the registry; the shielded aclose goes on.
CancelDuringAclose ==
    /\ clpc = "aclose"
    /\ LET fate == InnerFate(UsesShield)
       IN /\ detached' = IF fate = "running"
                         THEN detached \cup {[what |-> "aclose", h |-> 0]}
                         ELSE detached
          /\ innerCancelled' = (innerCancelled \/ fate = "cancelled")
    /\ closeReq' = closeReq \cup {h.id : h \in liveHandles}
    /\ clCancelled' = TRUE
    /\ connections' = NoConnections
    /\ clRaised' = Escapes("CancelledError")
    /\ clpc' = "done"
    /\ UNCHANGED <<liveHandles, nextHandle, clTodo, connVars, callVars, queryVars>>
    /\ UNCHANGED extNoClean

\* A close operation left running by a cancelled caller ends by itself: it
\* completes, fails, or runs into its own wait_for timeout.  A completed
\* aclose has exited every context of the stack.
DetachedFinish(t, out, left) ==
    /\ t \in detached
    /\ out \in {"ok", "TimeoutError", "Exception"}
    /\ left \subseteq liveHandles
    /\ IF t.what = "aclose"
       THEN out = "ok" => left = {}
       ELSE left = liveHandles
    /\ liveHandles' = left
    /\ detached' = detached \ {t}
    /\ UNCHANGED <<connections, closeReq, nextHandle, connVars, cleanVars, callVars,
                   queryVars, innerCancelled, clCancelled>>
    /\ UNCHANGED extNoClean

CleanupReturn ==
    /\ clpc = "done"
    /\ clpc' = "idle"
    /\ clTodo' = {}
    /\ clRaised' = FALSE
    /\ UNCHANGED <<hubVars, connVars, callVars, queryVars>>
    /\ clCancelled' = FALSE
    /\ UNCHANGED <<detached, innerCancelled>>
    /\ cSawCleanup' = (cpc # "idle")
    /\ UNCHANGED <<cLoad, setupVars, xCall, xQuery, loadVars, numVars, pipeVars, flowVars>>

\* cleanup() is started by another task while a connect_to_server call is
\* suspended in its transport connect or its handshake.
StartCleanupInFlight ==
    /\ cpc \in {"spawn", "session", "init", "get"}
    /\ clpc = "idle" /\ hpc = "idle" /\ qpc = "idle" /\ lpc = "idle"
    /\ detached = {} /\ setupPc = "idle"
    /\ clpc' = "loop"
    /\ clTodo' = get_all_servers(connections)
    /\ clRaised' = FALSE
    /\ UNCHANGED <<hubVars, connVars, callVars, queryVars>>
    /\ clCancelled' = FALSE
    /\ UNCHANGED <<detached, innerCancelled>>
    /\ UNCHANGED extNoClean

(***************************************************************************)
(* setup_mcp_server                                                        *)
(***************************************************************************)
\* mcp_hub = McpHub(); the connect for "moveflow-aptos" (with its prints) is
\* indented under "if aptos_private_key:", so it is made only when a key is
\* configured.
StartSetup(key) ==
    /\ AllIdle
    /\ connections = NoConnections /\ liveHandles = {} /\ closeReq = {} /\ nextHandle = 1
    /\ sKey' = key /\ cLoad' = None /\ cSawCleanup' = FALSE
    /\ IF key
       THEN /\ setupPc' = "connecting" /\ sRes' = None
            /\ cpc' = "head"
            /\ cName' = default_server_name /\ cKind' = "stdio" /\ cArg' = NoArg
            /\ retries' = EffectiveRetries(NoArg)
            /\ attempt' = 0 /\ cHandle' = 0 /\ cRes' = "running"
            /\ cHad' = FALSE /\ cOld' = 0 /\ sleeps' = 0 /\ tAttempts' = 0
       ELSE /\ setupPc' = "done" /\ sRes' = "hub"
            /\ UNCHANGED connVars
    /\ UNCHANGED <<hubVars, cleanVars, callVars, queryVars>>
    /\ UNCHANGED extNoConn

\* await mcp_hub.connect_to_server(...) has returned; what it returned is
\* not looked at, and the hub is returned.
SetupFinish ==
    /\ setupPc = "connecting"
    /\ cpc = "idle"
    /\ setupPc' = "done" /\ sRes' = "hub"
    /\ UNCHANGED <<sKey, cLoad, cSawCleanup>>
    /\ UNCHANGED <<hubVars, connVars, cleanVars, callVars, queryVars>>
    /\ UNCHANGED extNoConn

SetupReturn ==
    /\ setupPc = "done"
    /\ setupPc' = "idle" /\ sRes' = None /\ sKey' = FALSE
    /\ UNCHANGED <<cLoad, cSawCleanup>>
    /\ UNCHANGED <<hubVars, connVars, cleanVars, callVars, queryVars>>
    /\ UNCHANGED extNoConn

(***************************************************************************)
(* call_tool / read_resource                                               *)
(***************************************************************************)
HubOps == {"call_tool", "read_resource"}

\* Mutant: the lookup result is not tested.
SessionMissingNever(conns, name) == FALSE

\* connection = self.connections.get(server_name); "if not connection".
SessionMissing(conns, name) == conns[name] = NoSession

\* What the transport of a session can answer to one request.
TransportOutcomes(kind) ==
    IF kind = "sse" THEN {"200", "non200", "exception"}
    ELSE {"ok", "exception"}

KindOf(conn) == conn.transport

\* Mutant: a non-200 status is printed and an empty result returned, as
\* load_tools and get_resources do.
HubOutcomeSwallowStatus(kind, out) ==
    IF out = "exception" THEN "raised" ELSE "returned"

\* The try block of call_tool / read_resource: a result is returned for a
\* stdio answer and for status 200; any other status raises; "except
\* Exception as e: print(...); raise" passes every exception on.
HubOutcome(kind, out) ==
    CASE out \in {"ok", "200"} -> "returned"
      [] out = "non200" -> "raised"
      [] OTHER -> "raised"

HubCallStart(n, op) ==
    /\ AllIdle
    /\ hName' = n /\ hOp' = op
    /\ hOut' = None
    /\ IF SessionMissing(connections, n)
       THEN hpc' = "done" /\ hRes' = "SessionNotFound" /\ hReached' = FALSE
       ELSE hpc' = "transport" /\ hRes' = None /\ hReached' = TRUE
    /\ UNCHANGED <<hubVars, connVars, cleanVars, queryVars>>
    /\ hSilent' = FALSE
    /\ UNCHANGED extNoCall

HubCallFinish(out) ==
    /\ hpc = "transport"
    /\ IF out = "timeout"
       THEN HasTimeout(hOp)
       ELSE ~hSilent /\ out \in TransportOutcomes(KindOf(connections[hName]))
    /\ hOut' = out
    /\ hRes' = HubOutcome(KindOf(connections[hName]), out)
    /\ hpc' = "done"
    /\ UNCHANGED <<hName, hOp, hReached, hubVars, connVars, cleanVars, queryVars>>
    /\ UNCHANGED extVars

\* The environment: the server behind a stdio session stops answering
\* while a request is outstanding.
RemoteGoesSilent ==
    /\ hpc = "transport"
    /\ KindOf(connections[hName]) = "stdio"
    /\ ~hSilent
    /\ hSilent' = TRUE
    /\ UNCHANGED <<hubVars, connVars, cleanVars, callVars, queryVars>>
    /\ UNCHANGED extNoCall

HubCallReturn ==
    /\ hpc = "done"
    /\ hpc' = "idle"
    /\ hName' = None /\ hOp' = None /\ hOut' = None /\ hRes' = None
    /\ hReached' = FALSE
    /\ UNCHANGED <<hubVars, connVars, cleanVars, queryVars>>
    /\ hSilent' = FALSE
    /\ UNCHANGED extNoCall

(***************************************************************************)
(* load_tools called on its own (McpHub.load_tools)                        *)
(***************************************************************************)
\* The outcome of the tools/list request as load_tools sees it: the list is
\* stored for a stdio answer and for status 200 only.
LoadOutcomeOf(out) == IF out \in {"ok", "200"} THEN "ok" ELSE "fail"

\* connection = self.connections.get(server_name); a missing connection
\* returns []; otherwise the request is made, whatever connection["tools"]
\* holds.
StartLoadTools(n) ==
    /\ AllIdle
    /\ lName' = n
    /\ lCached' = (connections[n].tools # None)
    /\ IF connections[n] = NoSession
       THEN lpc' = "done" /\ lRes' = "empty" /\ lReached' = FALSE
       ELSE lpc' = "transport" /\ lRes' = None /\ lReached' = TRUE
    /\ UNCHANGED <<hubVars, connVars, cleanVars, callVars, queryVars>>
    /\ UNCHANGED extNoLoad

\* The awaited list_tools() / GET {url}/tools/list has answered.
LoadToolsFinish(out) ==
    /\ lpc = "transport"
    /\ out \in TransportOutcomes(KindOf(connections[lName]))
    /\ connections' = LoadTools(connections, lName, LoadOutcomeOf(out))
    /\ lRes' = IF LoadOutcomeOf(out) = "ok" THEN "tools" ELSE "empty"
    /\ lpc' = "done"
    /\ UNCHANGED <<lName, lCached, lReached>>
    /\ UNCHANGED <<liveHandles, closeReq, nextHandle, connVars, cleanVars, callVars,
                   queryVars>>
    /\ UNCHANGED extNoLoad

LoadToolsReturn ==
    /\ lpc = "done"
    /\ lpc' = "idle"
    /\ lName' = None /\ lCached' = FALSE /\ lReached' = FALSE /\ lRes' = None
    /\ UNCHANGED <<hubVars, connVars, cleanVars, callVars, queryVars>>
    /\ UNCHANGED extNoLoad

(***************************************************************************)
(* OpenAIAgent.process_query and the two process_response variants         *)
(***************************************************************************)
Services == {"openai", "anthropic"}
ToolNames == {"create-stream", "batch-create-streams", "get-stream"}

\* Shape of the arguments the model emitted for one invocation:
\*   "mapping"        a JSON object the tool's fields can be read from
\*   "scalar_amounts" an object whose depositAmounts is a non-zero number
\*   "not_mapping"    a JSON scalar (number, string, null)
ArgShapes == {"mapping", "scalar_amounts", "not_mapping"}

\* Responses of at most MaxBlocks blocks.  OpenAI: message.content (if any)
\* comes first and message.tool_calls follow; Anthropic: content blocks of
\* type text and tool_use in any order.
BlockSeqs(svc) ==
    LET all == UNION {[1..k -> {"text", "tool"}] : k \in 0..MaxBlocks}
    IN IF svc = "openai"
       THEN {b \in all : \A i \in 2..Len(b) : b[i] = "tool"}
       ELSE all

\* _preprocess_tool_args: args.copy() needs a mapping (or list); the list
\* comprehension over depositAmounts needs an iterable.
PreprocessRaises(tool, shape) ==
    \/ shape = "not_mapping"
    \/ tool = "batch-create-streams" /\ shape = "scalar_amounts"

\* What runs between picking up a tool invocation and the try block that
\* guards its call: json.loads(tool_call.function.arguments) (OpenAI only)
\* and _preprocess_tool_args.  TRUE when one of them raises.
PrepareRaises(svc, tool, shape, rawOk) ==
    \/ svc = "openai" /\ ~rawOk
    \/ PreprocessRaises(tool, shape)

\* Mutant: the annotation is inserted at the front of the list.
AppendAnnotationFront(ft, a) == <<a>> \o ft

\* final_text.append(...)
AppendAnnotation(ft, a) == Append(ft, a)

\* The annotation one finished call leaves: the try branch or the
\* "except Exception" branch around session.call_tool.
CallAnnotation(blk, out) ==
    [blk |-> blk, kind |-> IF out = "ok" THEN "result" ELSE "error"]

\* session.list_tools() on the stored session object: the object stored
\* for an sse connection is an aiohttp session and has no such method.
ListToolsOutcomes(conn) ==
    IF KindOf(conn) = "stdio" THEN {"tools", "empty", "exception"}
    ELSE {"exception"}

StartQuery(n, svc, special) ==
    /\ AllIdle
    /\ qName' = n /\ qSvc' = svc
    /\ qBlocks' = <<>> /\ qIdx' = 0 /\ final_text' = <<>>
    /\ qInflight' = 0 /\ qIssued' = <<>>
    /\ IF n \notin get_all_servers(connections)
       THEN qpc' = "done" /\ qRes' = "not_connected"
       ELSE IF special
            THEN qpc' = "done" /\ qRes' = "status"
            ELSE qpc' = "list" /\ qRes' = None
    /\ UNCHANGED <<hubVars, connVars, cleanVars, callVars>>
    /\ UNCHANGED extVars

\* tools_response = await session.list_tools()
QueryListTools(out) ==
    /\ qpc = "list"
    /\ out \in ListToolsOutcomes(connections[qName])
    /\ CASE out = "tools" -> qpc' = "generate" /\ qRes' = qRes
         [] out = "empty" -> qpc' = "done" /\ qRes' = "no_tools"
         [] OTHER -> qpc' = "done" /\ qRes' = "error"
    /\ UNCHANGED <<qSvc, qName, qBlocks, qIdx, final_text, qInflight, qIssued,
                   hubVars, connVars, cleanVars, callVars>>
    /\ UNCHANGED extVars

\* response = await self.ai_service.generate_response(query, functions)
QueryGenerate(ok, blocks) ==
    /\ qpc = "generate"
    /\ blocks \in BlockSeqs(qSvc)
    /\ IF ok
       THEN qpc' = "process" /\ qBlocks' = blocks /\ qIdx' = 1 /\ qRes' = qRes
       ELSE /\ blocks = <<>>
            /\ qpc' = "done" /\ qRes' = "error" /\ UNCHANGED <<qBlocks, qIdx>>
    /\ UNCHANGED <<qSvc, qName, final_text, qInflight, qIssued,
                   hubVars, connVars, cleanVars, callVars>>
    /\ UNCHANGED extVars

\* One pass of the loop of process_response up to the await: a text block
\* is appended; for a tool invocation the arguments are parsed and
\* pre-processed and session.call_tool is issued.  An exception raised
\* before the try block leaves process_response and is caught by
\* process_query's "except Exception".
ProcessBlock(tool, shape, rawOk) ==
    /\ qpc = "process"
    /\ qIdx <= Len(qBlocks)
    /\ IF qBlocks[qIdx] = "text"
       THEN /\ tool = "get-stream" /\ shape = "mapping" /\ rawOk
            /\ final_text' = AppendAnnotation(final_text, [blk |-> qIdx, kind |-> "text"])
            /\ qIdx' = qIdx + 1
            /\ UNCHANGED <<qpc, qInflight, qIssued, qRes>>
       ELSE IF PrepareRaises(qSvc, tool, shape, rawOk)
            THEN /\ qpc' = "done" /\ qRes' = "error"
                 /\ UNCHANGED <<final_text, qIdx, qInflight, qIssued>>
            ELSE /\ qpc' = "call"
                 /\ qInflight' = qIdx
                 /\ qIssued' = Append(qIssued, qIdx)
                 /\ UNCHANGED <<final_text, qIdx, qRes>>
    /\ UNCHANGED <<qSvc, qName, qBlocks, hubVars, connVars, cleanVars, callVars>>
    /\ UNCHANGED extVars

\* The awaited session.call_tool returns or raises; the annotation is
\* appended and the loop goes on.
QueryCallFinish(out) ==
    /\ qpc = "call"
    /\ final_text' = AppendAnnotation(final_text, CallAnnotation(qInflight, out))
    /\ qInflight' = 0
    /\ qIdx' = qIdx + 1
    /\ qpc' = "process"
    /\ UNCHANGED <<qSvc, qName, qBlocks, qIssued, qRes,
                   hubVars, connVars, cleanVars, callVars>>
    /\ UNCHANGED extVars

\* return "\n".join(final_text) if final_text else the placeholder
QueryFinish ==
    /\ qpc = "process"
    /\ qIdx > Len(qBlocks)
    /\ qRes' = IF final_text = <<>> THEN "placeholder" ELSE "text"
    /\ qpc' = "done"
    /\ UNCHANGED <<qSvc, qName, qBlocks, qIdx, final_text, qInflight, qIssued,
                   hubVars, connVars, cleanVars, callVars>>
    /\ UNCHANGED extVars

QueryReturn ==
    /\ qpc = "done"
    /\ qpc' = "idle"
    /\ qSvc' = None /\ qName' = None /\ qBlocks' = <<>> /\ qIdx' = 0
    /\ final_text' = <<>> /\ qInflight' = 0 /\ qIssued' = <<>> /\ qRes' = None
    /\ UNCHANGED <<hubVars, connVars, cleanVars, callVars>>
    /\ UNCHANGED extVars

(***************************************************************************)
(* MCPClient (client.py): a child process behind pipes, the thread that    *)
(* starts and stops it, the stderr thread, the response thread and the     *)
(* callers of send_request.                                                *)
(***************************************************************************)
RequestIds == 1..MaxRequests
\* An id no request carries.
UnknownId == 0

NoFuture == [state |-> "none", rid |-> UnknownId]
PendingFuture == [state |-> "pending", rid |-> UnknownId]
\* future.set_result(response): the future holds the response, of which the
\* id is kept.
DoneFuture(response) == [state |-> "done", rid |-> response.id]

\* A line of the child's stdout: a JSON object with or without an "id", or
\* text that is no JSON.
NoLine == [json |-> FALSE, hasId |-> FALSE, id |-> UnknownId]
JsonLine(id) == [json |-> TRUE, hasId |-> TRUE, id |-> id]
Notification == [json |-> TRUE, hasId |-> FALSE, id |-> UnknownId]

\* The requests the child has received.
Written == {k \in RequestIds : reqState[k] \in {"written", "returned"}}

\* What the child may write: an answer to a request it has received (once
\* or again), an answer carrying an id nobody sent, an object without id,
\* or text.
ChildLines == {JsonLine(k) : k \in Written \cup {UnknownId}} \cup {Notification, NoLine}

\* MCPClient.__init__
PipeInit ==
    /\ process = None /\ running = FALSE /\ request_map = {}
    /\ futures = [k \in RequestIds |-> NoFuture]
    /\ reqState = [k \in RequestIds |-> "unused"]
    /\ nextId = 1
    /\ spc = "idle" /\ epc = "none" /\ rpc = "none" /\ rLine = NoLine
    /\ tpc = "idle" /\ stopCalled = FALSE /\ killed = FALSE
    /\ child = "none" /\ errBuf = 0 /\ errClosed = FALSE
    /\ stdout = <<>> /\ emitted = 0

\* Mutant: the oldest pending request is taken, whatever the id.
MatchingRequestOldest(map, response) ==
    IF response.json /\ map # {}
    THEN CHOOSE k \in map : \A j \in map : k <= j
    ELSE UnknownId

\* 'id' in response and response['id'] in self.request_map: the request the
\* response is for (UnknownId: none).
MatchingRequest(map, response) ==
    IF response.json /\ response.hasId /\ response.id \in map
    THEN response.id
    ELSE UnknownId

\* _start_server: self.process = subprocess.Popen(...), which raises when the
\* command cannot be started.
Popen(ok) ==
    /\ spc = "idle"
    /\ tpc = "idle"
    /\ IF ok
       THEN process' = "child" /\ child' = "alive" /\ spc' = "spawned"
       ELSE spc' = "failed" /\ UNCHANGED <<process, child>>
    /\ UNCHANGED <<running, request_map, futures, reqState, nextId, epc, rpc, rLine, tpc,
                   stopCalled, killed, errBuf, errClosed, stdout, emitted, hubSide>>

\* stderr_thread.start()
StartStderrThread ==
    /\ spc = "spawned"
    /\ epc' = "check"
    /\ spc' = "stderr_started"
    /\ UNCHANGED <<process, running, request_map, futures, reqState, nextId, rpc, rLine,
                   tpc, stopCalled, killed, child, errBuf, errClosed, stdout, emitted,
                   hubSide>>

\* self.running = True
SetRunning ==
    /\ spc = "stderr_started"
    /\ running' = TRUE
    /\ spc' = "running_set"
    /\ UNCHANGED <<process, request_map, futures, reqState, nextId, epc, rpc, rLine, tpc,
                   stopCalled, killed, child, errBuf, errClosed, stdout, emitted, hubSide>>

\* self.response_thread.start()
StartResponseThread ==
    /\ spc = "running_set"
    /\ rpc' = "check"
    /\ spc' = "reader_started"
    /\ UNCHANGED <<process, running, request_map, futures, reqState, nextId, epc, rLine,
                   tpc, stopCalled, killed, child, errBuf, errClosed, stdout, emitted,
                   hubSide>>

\* time.sleep(2); _start_server returns.
StartSleep ==
    /\ spc = "reader_started"
    /\ spc' = "started"
    /\ UNCHANGED <<process, running, request_map, futures, reqState, nextId, epc, rpc,
                   rLine, tpc, stopCalled, killed, child, errBuf, errClosed, stdout,
                   emitted, hubSide>>

\* monitor_stderr: while self.running
StderrCheck ==
    /\ epc = "check"
    /\ epc' = IF running THEN "call" ELSE "exited"
    /\ UNCHANGED <<process, running, request_map, futures, reqState, nextId, spc, rpc,
                   rLine, tpc, stopCalled, killed, child, errBuf, errClosed, stdout,
                   emitted, hubSide>>

\* monitor_stderr: self.process.stderr.readline() is entered; with
\* self.process None the attribute access raises and ends the thread.
StderrCall ==
    /\ epc = "call"
    /\ epc' = IF process = None THEN "crashed" ELSE "blocked"
    /\ UNCHANGED <<process, running, request_map, futures, reqState, nextId, spc, rpc,
                   rLine, tpc, stopCalled, killed, child, errBuf, errClosed, stdout,
                   emitted, hubSide>>

\* monitor_stderr: readline returns a line, which is printed, or "" at the
\* end of the stream, which leaves the loop.
StderrLine ==
    /\ epc = "blocked"
    /\ errBuf > 0 \/ errClosed
    /\ IF errBuf > 0
       THEN errBuf' = errBuf - 1 /\ epc' = "check"
       ELSE errBuf' = errBuf /\ epc' = "exited"
    /\ UNCHANGED <<process, running, request_map, futures, reqState, nextId, spc, rpc,
                   rLine, tpc, stopCalled, killed, child, errClosed, stdout, emitted,
                   hubSide>>

\* _handle_responses: while self.running
ReaderCheck ==
    /\ rpc = "check"
    /\ rpc' = IF running THEN "call" ELSE "exited"
    /\ UNCHANGED <<process, running, request_map, futures, reqState, nextId, spc, epc,
                   rLine, tpc, stopCalled, killed, child, errBuf, errClosed, stdout,
                   emitted, hubSide>>

\* _handle_responses: self.process.stdout.readline() is entered; with
\* self.process None the attribute access raises, "except Exception" prints
\* and the loop goes on.
ReaderCall ==
    /\ rpc = "call"
    /\ rpc' = IF process = None THEN "check" ELSE "blocked"
    /\ UNCHANGED <<process, running, request_map, futures, reqState, nextId, spc, epc,
                   rLine, tpc, stopCalled, killed, child, errBuf, errClosed, stdout,
                   emitted, hubSide>>

\* _handle_responses: readline returns a line, or "" at the end of the
\* stream, which leaves the loop.
ReaderLine ==
    /\ rpc = "blocked"
    /\ stdout # <<>> \/ child = "dead"
    /\ IF stdout # <<>>
       THEN rLine' = Head(stdout) /\ stdout' = Tail(stdout) /\ rpc' = "handle"
       ELSE rpc' = "exited" /\ UNCHANGED <<rLine, stdout>>
    /\ UNCHANGED <<process, running, request_map, futures, reqState, nextId, spc, epc,
                   tpc, stopCalled, killed, child, errBuf, errClosed, emitted, hubSide>>

\* _handle_responses: json.loads(line); a response whose id is in
\* request_map pops the entry and completes its future; anything else is
\* printed.
ReaderHandle ==
    /\ rpc = "handle"
    /\ LET k == MatchingRequest(request_map, rLine) IN
       IF k # UnknownId
       THEN /\ request_map' = request_map \ {k}
            /\ futures' = [futures EXCEPT ![k] = DoneFuture(rLine)]
       ELSE UNCHANGED <<request_map, futures>>
    /\ rLine' = NoLine
    /\ rpc' = "check"
    /\ UNCHANGED <<process, running, reqState, nextId, spc, epc, tpc, stopCalled, killed,
                   child, errBuf, errClosed, stdout, emitted, hubSide>>

\* send_request up to its wait: request_id = str(uuid.uuid4()); future =
\* loop.create_future(); self.request_map[request_id] = (callback, future);
\* self.process.stdin.write(...); flush().  Without a process handle, or
\* with the child gone, the write raises and send_request is left, the
\* entry staying in request_map.
SendRequest ==
    /\ nextId <= MaxRequests
    /\ futures' = [futures EXCEPT ![nextId] = PendingFuture]
    /\ request_map' = request_map \cup {nextId}
    /\ reqState' = [reqState EXCEPT ![nextId] =
                        IF process = None \/ child = "dead" THEN "raised" ELSE "written"]
    /\ nextId' = nextId + 1
    /\ UNCHANGED <<process, running, spc, epc, rpc, rLine, tpc, stopCalled, killed,
                   child, errBuf, errClosed, stdout, emitted, hubSide>>

\* send_request: return loop.run_until_complete(future)
SendReturn(k) ==
    /\ reqState[k] = "written"
    /\ futures[k].state = "done"
    /\ reqState' = [reqState EXCEPT ![k] = "returned"]
    /\ UNCHANGED <<process, running, request_map, futures, nextId, spc, epc, rpc, rLine,
                   tpc, stopCalled, killed, child, errBuf, errClosed, stdout, emitted,
                   hubSide>>

\* The child writes one line to its stdout.
ChildWrites(line) ==
    /\ child = "alive"
    /\ emitted < MaxLines
    /\ line \in ChildLines
    /\ stdout' = Append(stdout, line)
    /\ emitted' = emitted + 1
    /\ UNCHANGED <<process, running, request_map, futures, reqState, nextId, spc, epc,
                   rpc, rLine, tpc, stopCalled, killed, child, errBuf, errClosed, hubSide>>

\* The child writes one line to its stderr (its pipe holds one unread line
\* at most).
ChildLogs ==
    /\ child = "alive"
    /\ ~errClosed
    /\ errBuf = 0
    /\ errBuf' = errBuf + 1
    /\ UNCHANGED <<process, running, request_map, futures, reqState, nextId, spc, epc,
                   rpc, rLine, tpc, stopCalled, killed, child, errClosed, stdout,
                   emitted, hubSide>>

\* The child closes its stderr and goes on running.
ChildClosesStderr ==
    /\ child = "alive"
    /\ ~errClosed
    /\ errClosed' = TRUE
    /\ UNCHANGED <<process, running, request_map, futures, reqState, nextId, spc, epc,
                   rpc, rLine, tpc, stopCalled, killed, child, errBuf, stdout, emitted,
                   hubSide>>

\* The child exits by itself: its ends of the pipes are closed.
ChildExits ==
    /\ child = "alive"
    /\ child' = "dead"
    /\ errClosed' = TRUE
    /\ UNCHANGED <<process, running, request_map, futures, reqState, nextId, spc, epc,
                   rpc, rLine, tpc, stopCalled, killed, errBuf, stdout, emitted, hubSide>>

\* stop: self.running = False; if self.process: self.process.terminate()
StopSetFlag ==
    /\ tpc = "idle"
    /\ spc \in {"idle", "started", "failed"}
    /\ running' = FALSE
    /\ stopCalled' = TRUE
    /\ tpc' = IF process # None THEN "wait" ELSE "idle"
    /\ UNCHANGED <<process, request_map, futures, reqState, nextId, spc, epc, rpc, rLine,
                   killed, child, errBuf, errClosed, stdout, emitted, hubSide>>

\* Mutant: a child that outlives the wait is left alone.
ChildAfterWaitNoKill(inTime, ch) == IF inTime THEN "dead" ELSE ch

\* try: wait(timeout=5) / except TimeoutExpired: kill(): the child has
\* exited within the wait, or is killed after it.
ChildAfterWait(inTime, ch) == "dead"

\* stop: self.process.wait(timeout=5); on TimeoutExpired self.process.kill().
\* Either way the child is gone afterwards.
StopWait(inTime) ==
    /\ tpc = "wait"
    /\ child = "dead" => inTime
    /\ killed' = ~inTime
    /\ child' = ChildAfterWait(inTime, child)
    /\ errClosed' = TRUE
    /\ tpc' = "clear"
    /\ UNCHANGED <<process, running, request_map, futures, reqState, nextId, spc, epc,
                   rpc, rLine, stopCalled, errBuf, stdout, emitted, hubSide>>

\* stop: self.process = None
StopClear ==
    /\ tpc = "clear"
    /\ process' = None
    /\ tpc' = "idle"
    /\ UNCHANGED <<running, request_map, futures, reqState, nextId, spc, epc, rpc, rLine,
                   stopCalled, killed, child, errBuf, errClosed, stdout, emitted, hubSide>>

NextPipe ==
    \/ \E ok \in BOOLEAN : Popen(ok)
    \/ StartStderrThread \/ SetRunning \/ StartResponseThread \/ StartSleep
    \/ StderrCheck \/ StderrCall \/ StderrLine
    \/ ReaderCheck \/ ReaderCall \/ ReaderLine \/ ReaderHandle
    \/ SendRequest
    \/ \E k \in RequestIds : SendReturn(k)
    \/ \E line \in {JsonLine(k) : k \in RequestIds \cup {UnknownId}}
                       \cup {Notification, NoLine} : ChildWrites(line)
    \/ ChildLogs \/ ChildClosesStderr \/ ChildExits
    \/ StopSetFlag
    \/ \E inTime \in BOOLEAN : StopWait(inTime)
    \/ StopClear

(***************************************************************************)
(* MoveFlowClient (client.py): the operations that call a tool and hand    *)
(* the response to _handle_transaction_preparation, and the tool list.     *)
(***************************************************************************)
\* A content item, by what its text holds: the marker "Transaction prepared
\* but not executed", the word "transactionId", and the id the regular
\* expression 'transactionId: ([a-zA-Z0-9_]+)' finds in it (0: no match).
ContentItems ==
    {it \in [marker : BOOLEAN, word : BOOLEAN, tx : 0..MaxTx] : it.tx # 0 => it.word}

\* A response: with or without a (non-empty) "result", whose "content" is a
\* list of items.
NoResponse == [hasResult |-> FALSE, items |-> <<>>]
Responses ==
    {NoResponse}
    \cup {[hasResult |-> TRUE, items |-> its] :
            its \in UNION {[1..n -> ContentItems] : n \in 0..MaxItems}}

\* What submit-signed-transaction answers.
SubmitResponse == [hasResult |-> TRUE, items |-> <<[marker |-> FALSE, word |-> TRUE, tx |-> 0]>>]

\* The methods that pass the response to _handle_transaction_preparation,
\* and get_stream_info, which returns it as it is.
PreparingTools ==
    {"create-stream", "withdraw-stream", "batch-create-streams", "batch-withdraw-streams"}
FlowTools == PreparingTools \cup {"get-stream-info"}

NoCalls == <<>>
Call(op, tx, out) == [op |-> op, tx |-> tx, out |-> out]

FlowIdle ==
    /\ available_tools = None /\ lastFetch = None
    /\ mpc = "idle" /\ mTool = None /\ mResp = NoResponse /\ mIdx = 0 /\ mTx = 0
    /\ mLog = NoCalls /\ mRes = None /\ mRet = NoResponse

\* Mutant: the marker is not looked at.
NeedsSigningAnyId(item) == item.word /\ item.tx # 0

\* "Transaction prepared but not executed" in text and "transactionId" in
\* text, and the regular expression finds an id.
NeedsSigning(item) == item.marker /\ item.word /\ item.tx # 0

\* Mutant: the transaction is signed whatever the fetch returned.
HasTxDataAlways(out) == TRUE

\* if tx_data:
HasTxData(out) == out = "data"

\* response = self.client.call_tool(tool, ...): the call raises, or returns a
\* response that get_stream_info returns and the other methods hand to
\* _handle_transaction_preparation.
FlowCall(tool, resp, ok) ==
    /\ mpc = "idle"
    /\ ~ok => resp = NoResponse
    /\ IF ~ok
       THEN mpc' = "done" /\ mRes' = "raised" /\ mResp' = NoResponse /\ mIdx' = 0
            /\ mRet' = NoResponse
       ELSE IF tool \in PreparingTools
       THEN mpc' = "prep" /\ mRes' = None /\ mResp' = resp /\ mIdx' = 1
            /\ mRet' = NoResponse
       ELSE mpc' = "done" /\ mRes' = "response" /\ mResp' = resp /\ mIdx' = 0
            /\ mRet' = resp
    /\ mTool' = tool
    /\ mLog' = <<Call(tool, 0, IF ok THEN "ok" ELSE "raised")>>
    /\ mTx' = 0
    /\ UNCHANGED <<read_only, available_tools, lastFetch, flowRest>>

\* _handle_transaction_preparation: the early returns and one pass of
\* "for item in content" up to the call that fetches the transaction.
FlowScan ==
    /\ mpc = "prep"
    /\ IF ~mResp.hasResult \/ mIdx > Len(mResp.items)
       THEN mpc' = "done" /\ mRes' = "response" /\ mRet' = mResp
            /\ UNCHANGED <<mIdx, mTx>>
       ELSE IF NeedsSigning(mResp.items[mIdx])
       THEN mpc' = "fetch" /\ mTx' = mResp.items[mIdx].tx
            /\ UNCHANGED <<mIdx, mRes, mRet>>
       ELSE mIdx' = mIdx + 1 /\ UNCHANGED <<mpc, mTx, mRes, mRet>>
    /\ UNCHANGED <<read_only, available_tools, lastFetch, mTool, mResp, mLog, flowRest>>

\* tx_data = self._get_transaction_data(tx_id): check-pending-transaction is
\* called; its data, or None when nothing could be read or the call raised.
FlowFetch(out) ==
    /\ mpc = "fetch"
    /\ out \in {"data", "none"}
    /\ IF HasTxData(out)
       THEN mpc' = "sign" /\ UNCHANGED <<mIdx, mTx>>
       ELSE mpc' = "prep" /\ mIdx' = mIdx + 1 /\ mTx' = 0
    /\ mLog' = Append(mLog, Call("check-pending-transaction", mTx, out))
    /\ UNCHANGED <<read_only, available_tools, lastFetch, mTool, mResp, mRes, mRet,
                   flowRest>>

\* signature = self._sign_transaction(tx_data): raises without a private
\* key or when the data cannot be signed.
FlowSign(ok) ==
    /\ mpc = "sign"
    /\ mLog' = Append(mLog, Call("sign", mTx, IF ok THEN "ok" ELSE "raised"))
    /\ mpc' = IF ok THEN "submit" ELSE "done"
    /\ mRes' = IF ok THEN mRes ELSE "raised"
    /\ UNCHANGED <<read_only, available_tools, lastFetch, mTool, mResp, mIdx, mTx, mRet,
                   flowRest>>

\* return self.submit_signed_transaction(tx_id, signature)
FlowSubmit(ok) ==
    /\ mpc = "submit"
    /\ mLog' = Append(mLog, Call("submit-signed-transaction", mTx, IF ok THEN "ok" ELSE "raised"))
    /\ mpc' = "done"
    /\ mRes' = IF ok THEN "submitted" ELSE "raised"
    /\ mRet' = IF ok THEN SubmitResponse ELSE NoResponse
    /\ UNCHANGED <<read_only, available_tools, lastFetch, mTool, mResp, mIdx, mTx,
                   flowRest>>

\* MCPClient.get_available_tools: the tool map of the response, {} when the
\* response has none or the request raised.
FetchTools(out) == IF out = "tools" THEN "tools" ELSE "empty"

\* MoveFlowClient.get_available_tools: if self._available_tools is None the
\* list is fetched and stored; the stored value is returned.
GetAvailableTools(out) ==
    /\ mpc = "idle"
    /\ out \in {"tools", "no_tools", "raised"}
    /\ available_tools # None => out = "tools"
    /\ IF available_tools = None
       THEN /\ mLog' = <<Call("tools/list", 0, out)>>
            /\ available_tools' = FetchTools(out)
            /\ lastFetch' = IF out = "raised" THEN "failed" ELSE "ok"
            /\ mRes' = FetchTools(out)
       ELSE /\ mLog' = NoCalls
            /\ mRes' = available_tools
            /\ UNCHANGED <<available_tools, lastFetch>>
    /\ mTool' = "tools/list"
    /\ mpc' = "done"
    /\ mResp' = NoResponse
    /\ mIdx' = 0
    /\ mTx' = 0
    /\ mRet' = NoResponse
    /\ UNCHANGED <<read_only, flowRest>>

\* The operation has returned or raised.
FlowReturn ==
    /\ mpc = "done"
    /\ mpc' = "idle"
    /\ mTool' = None
    /\ mResp' = NoResponse
    /\ mIdx' = 0
    /\ mTx' = 0
    /\ mLog' = NoCalls
    /\ mRes' = None
    /\ mRet' = NoResponse
    /\ UNCHANGED <<read_only, available_tools, lastFetch, flowRest>>

NextFlow ==
    \/ /\ mpc = "idle"
       /\ \E tool \in FlowTools, resp \in Responses, ok \in BOOLEAN :
              FlowCall(tool, resp, ok)
    \/ FlowScan
    \/ \E out \in {"data", "none"} : FlowFetch(out)
    \/ \E ok \in BOOLEAN : FlowSign(ok)
    \/ \E ok \in BOOLEAN : FlowSubmit(ok)
    \/ \E out \in {"tools", "no_tools", "raised"} : GetAvailableTools(out)
    \/ FlowReturn

(***************************************************************************)
(* The system: a hub after McpHub.__init__, driven by one task.            *)
(***************************************************************************)
RetryArgs == {NoArg} \cup {Arg(r) : r \in 0..MaxRetries}
ConnectOutcomes == {"ok", "timeout", "error"}
GetOutcomes == {"200", "non200", "timeout", "error"}
LoadOutcomes == {"ok", "fail", "timeout"}

InitHub ==
    /\ connections = NoConnections
    /\ liveHandles = {} /\ closeReq = {} /\ nextHandle = 1
    /\ cpc = "idle" /\ cName = None /\ cKind = None /\ cArg = NoArg
    /\ retries = 0 /\ attempt = 0 /\ cHandle = 0 /\ cRes = None
    /\ cOld = 0 /\ cHad = FALSE /\ sleeps = 0 /\ tAttempts = 0
    /\ clpc = "idle" /\ clTodo = {} /\ clRaised = FALSE
    /\ hpc = "idle" /\ hOp = None /\ hName = None /\ hOut = None /\ hRes = None
    /\ hReached = FALSE
    /\ qpc = "idle" /\ qSvc = None /\ qName = None /\ qBlocks = <<>> /\ qIdx = 0
    /\ final_text = <<>> /\ qInflight = 0 /\ qIssued = <<>> /\ qRes = None
    /\ lpc = "idle" /\ lName = None /\ lCached = FALSE /\ lReached = FALSE
    /\ lRes = None
    /\ cLoad = None /\ hSilent = FALSE
    /\ cSawCleanup = FALSE /\ setupPc = "idle" /\ sKey = FALSE /\ sRes = None
    /\ detached = {} /\ innerCancelled = FALSE /\ clCancelled = FALSE

DispatchIdle ==
    /\ dpc = "idle" /\ dSvc = None /\ dTool = None
    /\ dArgs = NullV /\ qSent = NullV /\ dFolded = NullV

NumIdle == numPc = "idle" /\ numFn = None /\ numIn = NullV /\ numOut = NullV

Init == InitHub /\ NumIdle /\ DispatchIdle /\ PipeInit /\ FlowIdle /\ read_only = FALSE

Next ==
    \/ \E n \in Names, k \in Kinds, r \in RetryArgs : StartConnect(n, k, r)
    \/ ConnectHead
    \/ \E out \in ConnectOutcomes : ConnectSpawn(out)
    \/ \E out \in ConnectOutcomes : ConnectSession(out)
    \/ \E out \in ConnectOutcomes : ConnectInit(out)
    \/ \E out \in GetOutcomes : ConnectGet(out)
    \/ \E out \in LoadOutcomes : ConnectLoad(out)
    \/ ConnectSleep
    \/ ConnectReturn
    \/ StartCleanup
    \/ \E n \in Names, hs \in BOOLEAN, out \in CloseOutcomes : CleanupSession(n, hs, out)
    \/ CleanupClear
    \/ \E out \in CloseOutcomes, left \in SUBSET liveHandles : CleanupAclose(out, left)
    \/ CleanupReturn
    \/ \E n \in Names : CancelDuringShutdown(n)
    \/ CancelDuringAclose
    \/ \E t \in detached, out \in CloseOutcomes, left \in SUBSET liveHandles :
           DetachedFinish(t, out, left)
    \/ \E n \in Names, op \in HubOps : HubCallStart(n, op)
    \/ \E out \in {"ok", "200", "non200", "exception", "timeout"} : HubCallFinish(out)
    \/ RemoteGoesSilent
    \/ HubCallReturn
    \/ \E n \in Names, svc \in Services, sp \in BOOLEAN : StartQuery(n, svc, sp)
    \/ \E out \in {"tools", "empty", "exception"} : QueryListTools(out)
    \/ \E ok \in BOOLEAN, b \in BlockSeqs(qSvc) : QueryGenerate(ok, b)
    \/ \E t \in ToolNames, sh \in ArgShapes, raw \in BOOLEAN : ProcessBlock(t, sh, raw)
    \/ \E out \in {"ok", "exception"} : QueryCallFinish(out)
    \/ QueryFinish
    \/ QueryReturn
    \/ \E n \in Names : StartLoadTools(n)
    \/ \E out \in {"ok", "200", "non200", "exception"} : LoadToolsFinish(out)
    \/ LoadToolsReturn
    \/ \E key \in BOOLEAN : StartSetup(key)
    \/ SetupFinish
    \/ SetupReturn

Spec == Init /\ [][Next]_vars

\* Two tasks on one hub: connect_to_server calls, and cleanup() calls that
\* may start while a connect is suspended in an await.
NextConc ==
    \/ \E n \in Names, k \in Kinds, r \in RetryArgs : StartConnect(n, k, r)
    \/ ConnectHead
    \/ \E out \in ConnectOutcomes : ConnectSpawn(out)
    \/ \E out \in ConnectOutcomes : ConnectSession(out)
    \/ \E out \in ConnectOutcomes : ConnectInit(out)
    \/ \E out \in GetOutcomes : ConnectGet(out)
    \/ \E out \in LoadOutcomes : ConnectLoad(out)
    \/ ConnectSleep
    \/ ConnectReturn
    \/ StartCleanup
    \/ StartCleanupInFlight
    \/ \E n \in Names, hs \in BOOLEAN, out \in CloseOutcomes : CleanupSession(n, hs, out)
    \/ CleanupClear
    \/ \E out \in CloseOutcomes, left \in SUBSET liveHandles : CleanupAclose(out, left)
    \/ CleanupReturn

SpecConc == Init /\ [][NextConc]_vars

\* The pipe transport alone: one MCPClient from its construction on.
SpecPipe == Init /\ [][NextPipe]_vars

\* The pipe transport with its threads scheduled: a thread that can take a
\* step takes it, a started stop() or _start_server goes on to its end, and
\* a caller whose future is done returns.  Nothing obliges the child to
\* write or to exit.
PipeFairness ==
    /\ WF_vars(StartStderrThread \/ SetRunning \/ StartResponseThread \/ StartSleep)
    /\ WF_vars(StderrCheck \/ StderrCall \/ StderrLine)
    /\ WF_vars(ReaderCheck \/ ReaderCall \/ ReaderLine \/ ReaderHandle)
    /\ WF_vars((\E inTime \in BOOLEAN : StopWait(inTime)) \/ StopClear)
    /\ WF_vars(\E k \in RequestIds : SendReturn(k))

SpecPipeLive == SpecPipe /\ PipeFairness

\* One MoveFlowClient, constructed in read-only mode or not.
InitFlow ==
    /\ InitHub /\ NumIdle /\ DispatchIdle /\ PipeInit /\ FlowIdle
    /\ read_only \in BOOLEAN

SpecFlow == InitFlow /\ [][NextFlow]_vars

(***************************************************************************)
(* The numeric-safety transform as a system of its own: a value is given,  *)
(* one of the two copies of the transform is applied to it.                *)
(***************************************************************************)
Int0 == IntV(FALSE, <<0>>)
Int5 == IntV(FALSE, <<5>>)
IntMaxSafe == IntV(FALSE, MAX_SAFE_INTEGER)
IntMinSafe == IntV(TRUE, MAX_SAFE_INTEGER)
Int2p53 == IntV(FALSE, <<9, 0, 0, 7, 1, 9, 9, 2, 5, 4, 7, 4, 0, 9, 9, 2>>)
IntNeg2p53 == IntV(TRUE, <<9, 0, 0, 7, 1, 9, 9, 2, 5, 4, 7, 4, 0, 9, 9, 2>>)
Int2p63m1 ==
    IntV(FALSE, <<9, 2, 2, 3, 3, 7, 2, 0, 3, 6, 8, 5, 4, 7, 7, 5, 8, 0, 7>>)
Str2p63m1 ==
    StrV(<<"9", "2", "2", "3", "3", "7", "2", "0", "3", "6", "8", "5", "4", "7",
           "7", "5", "8", "0", "7">>)
StrTrue == StrV(<<"t", "r", "u", "e">>)

Leaves ==
    {Int0, Int5, IntMaxSafe, IntMinSafe, Int2p53, IntNeg2p53, Int2p63m1,
     Str2p63m1, StrTrue, NullV}

\* Values nested at most d deep.
RECURSIVE ValuesUpTo(_)
ValuesUpTo(d) ==
    IF d = 0 THEN Leaves
    ELSE LET below == ValuesUpTo(d - 1)
         IN below
            \cup {ListV(<<x>>) : x \in below}
            \cup {ListV(<<Int5, x>>) : x \in below}
            \cup {DictV(<<"amount">>, <<x>>) : x \in below}
            \cup {DictV(<<"name", "amount">>, <<StrTrue, x>>) : x \in below}

NumInputs == ValuesUpTo(MaxNest)

InitNum ==
    /\ InitHub /\ DispatchIdle /\ PipeInit /\ FlowIdle /\ read_only = FALSE
    /\ numPc = "ready" /\ numFn = None /\ numIn \in NumInputs /\ numOut = NullV

\* result_converted = convert_bigint(result)
ApplyConvertBigint ==
    /\ numPc = "ready"
    /\ numOut' = convert_bigint(numIn)
    /\ numFn' = "convert_bigint"
    /\ numPc' = "done"
    /\ UNCHANGED <<numIn, hubVars, connVars, cleanVars, callVars, queryVars>>
    /\ UNCHANGED extNoNum

\* tool_args = convert_args_bigint(tool_args)
ApplyConvertArgsBigint ==
    /\ numPc = "ready"
    /\ numOut' = convert_args_bigint(numIn)
    /\ numFn' = "convert_args_bigint"
    /\ numPc' = "done"
    /\ UNCHANGED <<numIn, hubVars, connVars, cleanVars, callVars, queryVars>>
    /\ UNCHANGED extNoNum

\* The transform is applied to its own output (a result that was converted
\* before it is formatted again).
ApplyAgain ==
    /\ numPc = "done"
    /\ numOut # numIn
    /\ numIn' = numOut
    /\ numOut' = NullV
    /\ numFn' = None
    /\ numPc' = "ready"
    /\ UNCHANGED <<hubVars, connVars, cleanVars, callVars, queryVars>>
    /\ UNCHANGED extNoNum

NextNum == ApplyConvertBigint \/ ApplyConvertArgsBigint \/ ApplyAgain

SpecNum == InitNum /\ [][NextNum]_vars

(***************************************************************************)
(* One tool invocation of process_response with the values it handles:     *)
(* the arguments are pre-processed and forwarded to session.call_tool, the *)
(* result is rendered into the annotation.                                 *)
(***************************************************************************)
StrTrueCap == StrV(<<"T", "r", "u", "e">>)
StrPlain == StrV(<<"o", "k">>)

\* The value stored under key k of mapping d (k in d).
HasKey(d, k) == \E i \in DOMAIN d.keys : d.keys[i] = k
Get(d, k) == d.items[CHOOSE i \in DOMAIN d.keys : d.keys[i] = k]
Put(d, k, v) ==
    DictV(d.keys, [i \in DOMAIN d.items |-> IF d.keys[i] = k THEN v ELSE d.items[i]])

\* Python truthiness of a value.
Truthy(v) ==
    CASE v.t = "null" -> FALSE
      [] v.t = "bool" -> v.neg
      [] v.t = "int" -> v.digits # <<0>>
      [] v.t = "str" -> v.s # <<>>
      [] OTHER -> v.items # <<>>

\* str.lower() over the letters that occur.
LowerChar(c) ==
    CASE c = "T" -> "t" [] c = "R" -> "r" [] c = "U" -> "u" [] c = "E" -> "e"
      [] OTHER -> c
lower(v) == StrV([i \in DOMAIN v.s |-> LowerChar(v.s[i])])

\* str(x) for the scalars that reach it: an integer is rendered, a string
\* is itself.
StrOf(v) == IF v.t = "int" THEN str(v) ELSE v

\* [str(amt) for amt in x]: a list gives its items, a string its characters.
StrEach(v) ==
    IF v.t = "str" THEN ListV([i \in DOMAIN v.s |-> StrV(<<v.s[i]>>)])
    ELSE ListV([i \in DOMAIN v.items |-> StrOf(v.items[i])])

\* for field in fields: if field in args and args[field] is not None:
\*     args[field] = str(args[field])
RECURSIVE StrFields(_, _)
StrFields(d, fields) ==
    IF fields = <<>> THEN d
    ELSE LET f == Head(fields)
             d1 == IF HasKey(d, f) /\ Get(d, f).t # "null"
                   THEN Put(d, f, StrOf(Get(d, f))) ELSE d
         IN StrFields(d1, Tail(fields))

\* for field in boolean_fields: a string becomes (s.lower() == "true")
RECURSIVE BoolFields(_, _)
BoolFields(d, fields) ==
    IF fields = <<>> THEN d
    ELSE LET f == Head(fields)
             d1 == IF HasKey(d, f) /\ Get(d, f).t = "str"
                   THEN Put(d, f, BoolV(lower(Get(d, f)) = StrTrue)) ELSE d
         IN BoolFields(d1, Tail(fields))

\* if key in args and args[key]: args[key] = [str(amt) for amt in args[key]]
StrList(d, key) ==
    IF HasKey(d, key) /\ Truthy(Get(d, key)) THEN Put(d, key, StrEach(Get(d, key)))
    ELSE d

\* The list comprehension raises TypeError over a truthy value that is not
\* iterable.
StrListRaises(d, key) ==
    HasKey(d, key) /\ Truthy(Get(d, key)) /\ Get(d, key).t \in {"int", "bool"}

\* _preprocess_tool_args raises: args.copy() on a value that is no mapping,
\* or one of the two list comprehensions.
PreprocessArgsRaise(tool_name, args) ==
    \/ args.t # "dict"
    \/ /\ tool_name = "batch-create-streams"
       /\ StrListRaises(args, "depositAmounts") \/ StrListRaises(args, "cliffAmounts")

\* BaseAIService._preprocess_tool_args
PreprocessToolArgs(tool_name, args) ==
    IF tool_name = "create-stream"
    THEN BoolFields(
             StrFields(args, <<"depositAmount", "cliffAmount", "startTime", "stopTime",
                               "interval", "autoWithdrawInterval">>),
             <<"autoWithdraw", "isFa", "execute">>)
    ELSE IF tool_name = "batch-create-streams"
    THEN StrFields(StrList(StrList(args, "depositAmounts"), "cliffAmounts"),
                   <<"startTime", "stopTime", "interval", "autoWithdrawInterval">>)
    ELSE args

\* "\n".join(text_content)
RECURSIVE JoinLines(_)
JoinLines(texts) ==
    IF texts = <<>> THEN <<>>
    ELSE IF Len(texts) = 1 THEN texts[1].s
    ELSE texts[1].s \o <<"\n">> \o JoinLines(Tail(texts))

\* The text of every item of a content list (the items here are mappings
\* with a "text" entry that is no JSON document).
TextsOf(content) == [i \in DOMAIN content.items |-> Get(content.items[i], "text")]

\* OpenAIService._format_tool_result, as the value whose rendering is
\* returned: the joined texts of a non-empty content list, else
\* json.dumps(result_converted).
FormatToolResult(result) ==
    LET result_converted == convert_bigint(result)
    IN IF /\ result_converted.t = "dict" /\ HasKey(result_converted, "content")
          /\ Get(result_converted, "content").t = "list"
          /\ Truthy(Get(result_converted, "content"))
       THEN StrV(JoinLines(TextsOf(Get(result_converted, "content"))))
       ELSE result_converted

\* What is rendered into "[... result: ...]": OpenAIService formats the
\* result, AnthropicService puts the result into the f-string as it is.
FoldedResult(svc, result) ==
    IF svc = "openai" THEN FormatToolResult(result) ELSE result

\* Arguments a model may emit: one entry under a field name some tool
\* knows, or a scalar in place of the mapping.
ArgFields == {"depositAmount", "startTime", "streamId"}
DispatchArgs ==
    {DictV(<<"recipient", f>>, <<StrPlain, v>>) :
        f \in ArgFields, v \in {Int5, IntMaxSafe, Int2p63m1, Str2p63m1, NullV}}
    \cup {DictV(<<"isFa">>, <<v>>) : v \in {StrTrue, StrTrueCap, StrPlain, BoolV(TRUE)}}
    \cup {DictV(<<"depositAmounts">>, <<v>>) :
            v \in {ListV(<<Int5, Int2p63m1>>), ListV(<<>>), StrPlain, NullV, Int0, Int5}}
    \cup {Int5}

\* Results a tool may return.
DispatchResults ==
    {DictV(<<"amount">>, <<v>>) : v \in {Int5, IntMaxSafe, Int2p63m1, Str2p63m1}}
    \cup {DictV(<<"streams">>, <<ListV(<<DictV(<<"amount">>, <<Int2p63m1>>)>>)>>),
          DictV(<<"content">>, <<ListV(<<>>)>>),
          DictV(<<"content">>, <<ListV(<<DictV(<<"text">>, <<StrPlain>>)>>)>>),
          DictV(<<"content">>,
                <<ListV(<<DictV(<<"text">>, <<StrPlain>>), DictV(<<"text">>, <<StrPlain>>)>>)>>)}

\* processed_args = self._preprocess_tool_args(tool_name, tool_args), then
\* session.call_tool(tool_name, processed_args) is awaited.
DispatchInvoke(svc, tool, args) ==
    /\ dpc = "idle"
    /\ dSvc' = svc /\ dTool' = tool /\ dArgs' = args
    /\ IF PreprocessArgsRaise(tool, args)
       THEN dpc' = "raised" /\ qSent' = NullV
       ELSE dpc' = "called" /\ qSent' = PreprocessToolArgs(tool, args)
    /\ UNCHANGED <<dFolded, hubVars, connVars, cleanVars, callVars, queryVars>>
    /\ UNCHANGED extNoQuery

\* The call returned result: the annotation of the result is appended.
DispatchFold(result) ==
    /\ dpc = "called"
    /\ dFolded' = FoldedResult(dSvc, result)
    /\ dpc' = "folded"
    /\ UNCHANGED <<dSvc, dTool, dArgs, qSent, hubVars, connVars, cleanVars, callVars,
                   queryVars>>
    /\ UNCHANGED extNoQuery

\* The call raised: the annotation of the failure is appended, no result
\* is rendered.
DispatchFail ==
    /\ dpc = "called"
    /\ dpc' = "raised"
    /\ UNCHANGED <<dSvc, dTool, dArgs, qSent, dFolded, hubVars, connVars, cleanVars,
                   callVars, queryVars>>
    /\ UNCHANGED extNoQuery

\* The loop goes on to the next invocation (or process_response is left).
DispatchNext ==
    /\ dpc \in {"folded", "raised"}
    /\ dpc' = "idle" /\ dSvc' = None /\ dTool' = None
    /\ dArgs' = NullV /\ qSent' = NullV /\ dFolded' = NullV
    /\ UNCHANGED <<hubVars, connVars, cleanVars, callVars, queryVars>>
    /\ UNCHANGED extNoQuery

NextDispatch ==
    \/ \E svc \in Services, tool \in ToolNames, args \in DispatchArgs :
          DispatchInvoke(svc, tool, args)
    \/ \E result \in DispatchResults : DispatchFold(result)
    \/ DispatchFail
    \/ DispatchNext

SpecDispatch == Init /\ [][NextDispatch]_vars

(***************************************************************************)
(* Properties                                                              *)
(***************************************************************************)
Supported(kind) == kind \in {"stdio", "sse"}
ToolBlocks == {j \in DOMAIN qBlocks : qBlocks[j] = "tool"}
AnnotationsOf(j) ==
    {k \in DOMAIN final_text : final_text[k].blk = j /\ final_text[k].kind # "text"}

\* C1: when connect_to_server(N, cfg) has returned True, N is a key of the
\* registry (get_all_servers) and the session stored for N has status
\* "connected".
C1_ConnectedAfterTrue ==
    (cpc = "done" /\ cRes = "True") =>
        /\ cName \in get_all_servers(connections)
        /\ connections[cName].status = "connected"

\* A connect that returned True after at least one failed attempt.
C1_Witness ==
    /\ cpc = "done" /\ cRes = "True" /\ attempt > 1
    /\ connections[cName].status = "connected"

\* C2: a connect that was passed retries = r >= 0 and whose every attempt
\* failed has made exactly r+1 passes of the loop and r+1 transport connects
\* when it returns False.
C2_RetryBound ==
    (cpc = "done" /\ cRes = "False" /\ Supported(cKind) /\ cArg # NoArg) =>
        /\ attempt = cArg[1] + 1
        /\ tAttempts = cArg[1] + 1

\* C3: after a connect whose every attempt failed has returned False, the
\* session recorded for the name has status "disconnected" and a non-empty
\* error.
C3_DisconnectedAfterFalse ==
    (cpc = "done" /\ cRes = "False" /\ Supported(cKind)) =>
        /\ connections[cName].status = "disconnected"
        /\ connections[cName].error # ""

\* C4: when connect is called for a name whose session holds a transport
\* handle, that handle has received a close request by the time the new
\* session is stored, and once connect has returned True exactly one live
\* handle exists for the name.
C4_OldHandleClosed ==
    (cpc \in {"load", "done"} /\ cRes # "False" /\ cOld # 0
        /\ connections[cName] # NoSession) =>
        /\ cOld \in closeReq
        /\ Cardinality({h \in liveHandles : h.name = cName}) <= 1

\* C5: whenever cleanup() ends, it has not raised and the registry is empty,
\* whatever the session shutdowns and the closing of the resource stack did
\* (success, timeout, cancellation, error), and also when the registry was
\* empty already.
C5_CleanupNeverRaises ==
    clpc = "done" => (~clRaised /\ get_all_servers(connections) = {})

\* A cleanup that ended although closing the resource stack failed and left
\* a handle open, after a shutdown request had been made.
C5_Witness ==
    /\ clpc = "done" /\ ~clRaised
    /\ liveHandles # {} /\ closeReq # {}
    /\ connections = NoConnections

\* C6: call_tool / read_resource for a name without a session end with the
\* session-not-found error and hand no request to a transport.
C6_MissingSessionFailsFast ==
    /\ (hpc # "idle" /\ connections[hName] = NoSession) =>
           (hRes = "SessionNotFound" /\ ~hReached /\ hpc = "done")
    /\ hReached => (hpc # "idle" /\ connections[hName] # NoSession)

\* read_resource has failed fast on a missing session.
C6_Witness ==
    /\ hpc = "done" /\ hOp = "read_resource"
    /\ connections[hName] = NoSession
    /\ hRes = "SessionNotFound" /\ ~hReached

\* C7: a connect with an unsupported transport kind returns False in its
\* first pass: no transport connect is started, no retry and no sleep is
\* made.
C7_UnsupportedImmediate ==
    (cpc # "idle" /\ ~Supported(cKind)) =>
        /\ tAttempts = 0 /\ sleeps = 0 /\ attempt <= 1
        /\ cpc \in {"head", "done"}
        /\ cpc = "done" => (cRes = "False" /\ attempt = 1)

\* A connect with kind carrier-pigeon, given retries, has returned False.
C7_Witness ==
    /\ cpc = "done" /\ cKind = "carrier-pigeon" /\ cArg = Arg(MaxRetries)
    /\ cRes = "False" /\ attempt = 1 /\ sleeps = 0

\* C8: tool invocations are dispatched one at a time in emission order: a
\* call is issued only when every earlier invocation has its annotation,
\* the annotations stand in final_text in emission order, and a query that
\* returns the joined text holds one for every invocation.
C8_SequentialDispatch ==
    /\ \A i, j \in DOMAIN final_text :
           i < j => final_text[i].blk < final_text[j].blk
    /\ \A i, j \in DOMAIN qIssued : i < j => qIssued[i] < qIssued[j]
    /\ qInflight # 0 =>
           \A j \in ToolBlocks : j < qInflight => AnnotationsOf(j) # {}
    /\ qRes = "text" => \A j \in ToolBlocks : AnnotationsOf(j) # {}

\* Two invocations were dispatched, the first failed, the second succeeded.
C8_Witness ==
    /\ qpc = "done" /\ qRes = "text"
    /\ Len(qIssued) >= 2
    /\ \E a, b \in DOMAIN final_text :
           /\ a < b
           /\ final_text[a].kind = "error"
           /\ final_text[b].kind = "result"

\* C9: when process_response was entered, the query ends with exactly one
\* annotation (result or error marker) for every invocation the model
\* emitted.
C9_EveryInvocationAnnotated ==
    (qpc = "done" /\ qBlocks # <<>>) =>
        \A j \in ToolBlocks : Cardinality(AnnotationsOf(j)) = 1

\* C10: when a session exists and the transport fails during call_tool or
\* read_resource (exception, non-200 status), the call ends by raising.
C10_TransportFailurePropagates ==
    (hpc = "done" /\ hReached /\ hOut \in {"non200", "exception"}) =>
        hRes = "raised"

\* call_tool on an sse session got a non-200 status and raised.
C10_Witness ==
    /\ hpc = "done" /\ hOp = "call_tool" /\ hReached
    /\ connections[hName].transport = "sse"
    /\ hOut = "non200" /\ hRes = "raised"

\* C11: load_tools on a session whose tool list is already cached hands no
\* request to the transport.
C11_CachedListNotFetched ==
    (lpc # "idle" /\ lCached) => ~lReached

\* C12: when the transport connect succeeded and the load_tools that
\* follows it failed or timed out, connect returns True, the session is
\* registered with status "connected" and its tool list is unset.
C12_LoadFailureNotFatal ==
    (cpc = "done" /\ cLoad \in {"fail", "timeout"}) =>
        /\ cRes = "True"
        /\ connections[cName] # NoSession
        /\ connections[cName].status = "connected"
        /\ connections[cName].tools = None

\* A stdio connect whose load_tools timed out has returned True.
C12_Witness ==
    /\ cpc = "done" /\ cKind = "stdio" /\ cLoad = "timeout" /\ cRes = "True"
    /\ connections[cName].tools = None

\* C13: a call_tool / read_resource that waits on a remote side that never
\* answers can still end (by its timeout): it does not wait forever.
C13_WaitIsBounded ==
    (hpc = "transport" /\ hSilent) =>
        ENABLED (\E out \in {"ok", "200", "non200", "exception", "timeout"} :
                     HubCallFinish(out))

\* C14: when the task calling cleanup() is cancelled while a session
\* shutdown or the closing of the resource stack is in progress, that
\* operation is not cancelled with it, and cleanup still ends without
\* raising and with the registry empty.
C14_ShieldedUnderCancellation ==
    /\ ~innerCancelled
    /\ (clpc = "done" /\ clCancelled) =>
           (~clRaised /\ connections = NoConnections)

\* cleanup has ended after its task was cancelled; a shielded close is
\* still running.
C14_Witness ==
    /\ clpc = "done" /\ clCancelled /\ ~clRaised
    /\ detached # {}
    /\ connections = NoConnections

\* out is v with every integer of magnitude above 2^53 - 1, at any depth,
\* replaced by the string of its decimal digits, and nothing else changed.
RECURSIVE IsSafeImage(_, _)
IsSafeImage(v, out) ==
    IF v.t \in {"dict", "list"}
    THEN /\ out.t = v.t /\ out.keys = v.keys
         /\ Len(out.items) = Len(v.items)
         /\ \A i \in DOMAIN v.items : IsSafeImage(v.items[i], out.items[i])
    ELSE IF v.t = "int" /\ DigitsGreater(v.digits, MAX_SAFE_INTEGER)
    THEN /\ out.t = "str"
         /\ Len(out.s) = Len(v.digits) + (IF v.neg THEN 1 ELSE 0)
         /\ v.neg => out.s[1] = "-"
         /\ \A i \in DOMAIN v.digits :
                out.s[i + (IF v.neg THEN 1 ELSE 0)]
                    = <<"0", "1", "2", "3", "4", "5", "6", "7", "8", "9">>[v.digits[i] + 1]
    ELSE out = v

\* C15: the transform maps every integer n with |n| > 2^53-1 found at any
\* depth of a nested mapping / sequence to the decimal string of n
\* (9223372036854775807 becomes "9223372036854775807") and leaves every
\* other integer, 2^53-1 and -(2^53-1) included, and every non-numeric
\* value unchanged.
C15_NumericSafetyTransform ==
    numPc = "done" =>
        /\ IsSafeImage(numIn, numOut)
        /\ numIn = Int2p63m1 => numOut = Str2p63m1
        /\ numIn \in {IntMaxSafe, IntMinSafe, Int5, StrTrue} => numOut = numIn

\* The big integer two levels deep, in the list <<5, 2^63-1>> under the key
\* "amount", has become its decimal string; the 5 next to it is unchanged.
C15_Witness ==
    /\ numPc = "done"
    /\ numIn = DictV(<<"amount">>, <<ListV(<<Int5, Int2p63m1>>)>>)
    /\ numOut = DictV(<<"amount">>, <<ListV(<<Int5, Str2p63m1>>)>>)

\* v holds no integer of magnitude above 2^53 - 1 as a number, at any depth.
RECURSIVE NoUnsafeInteger(_)
NoUnsafeInteger(v) ==
    IF v.t \in {"dict", "list"}
    THEN \A i \in DOMAIN v.items : NoUnsafeInteger(v.items[i])
    ELSE ~(v.t = "int" /\ DigitsGreater(v.digits, MAX_SAFE_INTEGER))

\* C16: on every dispatch path (every tool name, both AI service
\* variants) the arguments forwarded to the tool call hold no integer above
\* 2^53-1 as a number, and neither does a tool result folded into the
\* response text.
C16_PolicyOnEveryPath ==
    /\ dpc \in {"called", "folded"} => NoUnsafeInteger(qSent)
    /\ dpc = "folded" => NoUnsafeInteger(dFolded)

\* C19: in every connect attempt for a name, a session already registered
\* under it is removed before the transport connect is attempted: while an
\* attempt is in progress, and after a connect that failed, the registry
\* holds no session for the name, even if one existed before the call.
C19_ExistingSessionRemoved ==
    /\ cpc \in {"spawn", "session", "init", "get", "sleep"} =>
           connections[cName] = NoSession
    /\ (cpc = "head" /\ attempt > 0) => connections[cName] = NoSession
    /\ (cpc = "done" /\ cRes = "False") => connections[cName] = NoSession

\* A connect for a name that had a session has failed after trying the
\* transport, and the name is no longer registered.
C19_Witness ==
    /\ cpc = "done" /\ cRes = "False" /\ cHad /\ tAttempts > 0
    /\ cName \notin get_all_servers(connections)

\* C18: a session is stored as connected only from status connecting, on a
\* first connect and on a reconnect alike.
C18_ConnectingBeforeConnected ==
    [][\A n \in Names :
          (connections'[n].status = "connected" /\ connections[n].status # "connected")
              => connections[n].status = "connecting"]_vars

\* C17: on the pipe transport a response completes exactly the pending
\* request whose id equals its own: whatever the order in which responses
\* arrive, a completed future holds the response carrying the id of its
\* request and has left request_map, and a response with an id no pending
\* request has completes no future.
C17_MatchedByCorrelationId ==
    \A k \in RequestIds :
        /\ futures[k].state = "done" => (futures[k].rid = k /\ k \notin request_map)
        /\ k \in request_map => futures[k].state = "pending"

\* Two requests were outstanding, an answer nobody asked for and the answer
\* to the second request were read: the second request is completed, the
\* first one is still pending.
C17_Witness ==
    /\ reqState[1] = "written" /\ futures[1].state = "pending" /\ 1 \in request_map
    /\ futures[2].state = "done" /\ futures[2].rid = 2
    /\ emitted = 2 /\ stdout = <<>> /\ rpc = "check"

\* C20: the stderr thread runs for the lifetime of the session: once
\* started it has not ended unless the child closed its stderr or stop()
\* was called, under every interleaving with the starting thread.
C20_StderrDrainLives ==
    epc \in {"exited", "crashed"} => (errClosed \/ stopCalled)

\* The stop() that cleared the process handle has returned.
Stopped == spc = "started" /\ process = None /\ tpc = "idle"

\* C21: when stop() on the pipe transport has returned, the stderr thread
\* and the response thread have both ended, and neither has touched the
\* process handle after stop() cleared it.
C21_ThreadsEndedAtStop ==
    Stopped => (epc = "exited" /\ rpc = "exited")

\* C22: stop() asks the child to terminate, waits a bounded time, kills the
\* child if it has not exited by then, and in every case ends with
\* running = False and no process handle; a further stop() changes nothing.
C22_StopAlwaysEnds ==
    /\ tpc = "wait" => ENABLED (\E inTime \in BOOLEAN : StopWait(inTime))
    /\ tpc = "clear" =>
           /\ ~running /\ child = "dead"
           /\ ENABLED (StopClear /\ process' = None /\ ~running' /\ tpc' = "idle")
    /\ Stopped =>
           /\ ~running /\ child = "dead" /\ stopCalled
           /\ ENABLED StopSetFlag
           /\ ~ENABLED (StopSetFlag /\ vars' # vars)

\* stop() has returned after it had to kill a child that ignored the request
\* to terminate.
C22_Witness == Stopped /\ killed /\ ~running /\ child = "dead"

\* C25: every request sent with send_request eventually completes: also
\* when the child's stdout reaches its end or stop() is called while the
\* request is pending, the call returns or raises and the entry leaves
\* request_map.
C25_EveryRequestCompletes ==
    \A k \in RequestIds :
        (reqState[k] = "written") ~> (reqState[k] # "written" /\ k \notin request_map)

\* The calls of the running operation that invoke the signer or
\* submit-signed-transaction.
SigningCalls ==
    {i \in DOMAIN mLog : mLog[i].op \in {"sign", "submit-signed-transaction"}}

\* The response carries the marker together with a transaction id.
CarriesPrepared(resp) ==
    resp.hasResult /\ \E i \in DOMAIN resp.items :
        resp.items[i].marker /\ resp.items[i].tx # 0

\* C23: the signer is invoked only for a tool response whose text carries
\* the marker 'Transaction prepared but not executed' together with a
\* transaction id; for every other response the transaction-preparation step
\* returns the response unchanged and invokes neither the signer nor
\* submit-signed-transaction.
C23_SignerOnlyWhenPrepared ==
    /\ SigningCalls # {} =>
           /\ CarriesPrepared(mResp)
           /\ \A i \in SigningCalls : \E j \in DOMAIN mResp.items :
                  mResp.items[j].marker /\ mResp.items[j].tx = mLog[i].tx
    /\ (mpc = "done" /\ mTool \in PreparingTools /\ mRes # "raised"
            /\ ~CarriesPrepared(mResp)) =>
           /\ mRes = "response" /\ mRet = mResp
           /\ Len(mLog) = 1

\* A response with two items naming transaction ids, only the second with
\* the marker, has gone through signing and submission for the second id.
C23_Witness ==
    /\ mpc = "done" /\ mRes = "submitted"
    /\ Len(mResp.items) = 2
    /\ ~mResp.items[1].marker /\ mResp.items[1].tx = 1
    /\ mResp.items[2].marker /\ mResp.items[2].tx = 2
    /\ mLog[Len(mLog)] = Call("submit-signed-transaction", 2, "ok")

\* C28: in the prepared-transaction flow the calls go check-pending-
\* transaction, sign, submit-signed-transaction, all for the one
\* transaction id taken from the response; submit-signed-transaction is
\* never called when the fetch returned nothing or signing failed.
C28_FetchSignSubmitInOrder ==
    \A i \in DOMAIN mLog :
        /\ mLog[i].op = "submit-signed-transaction" =>
               /\ i > 2
               /\ mLog[i - 1] = Call("sign", mLog[i].tx, "ok")
               /\ mLog[i - 2] = Call("check-pending-transaction", mLog[i].tx, "data")
               /\ \E j \in DOMAIN mResp.items : mResp.items[j].tx = mLog[i].tx
        /\ mLog[i].op = "sign" =>
               /\ i > 1
               /\ mLog[i - 1] = Call("check-pending-transaction", mLog[i].tx, "data")

\* The fetch for the first prepared transaction returned nothing, it was
\* neither signed nor submitted, and the second one went through the three
\* calls in order.
C28_Witness ==
    /\ mpc = "done" /\ Len(mLog) = 5
    /\ mLog[2] = Call("check-pending-transaction", 1, "none")
    /\ mLog[3] = Call("check-pending-transaction", 2, "data")
    /\ mLog[4] = Call("sign", 2, "ok")
    /\ mLog[5] = Call("submit-signed-transaction", 2, "ok")

\* C29: while the client is in read-only mode no operation invokes the
\* signer or calls submit-signed-transaction, whatever the responses hold.
C29_ReadOnlyNeverSigns ==
    read_only => SigningCalls = {}

\* C30: get_available_tools caches only a successful fetch: a call made
\* after the tools/list request failed issues the request again.
C30_FailedFetchNotCached ==
    [][(mpc = "idle" /\ mpc' = "done" /\ mTool' = "tools/list" /\ lastFetch = "failed")
          => mLog' # NoCalls]_vars

\* C27: a connect call that fails because the transport kind is unsupported
\* leaves the registry unchanged: a session registered under the name
\* before the call is still registered, the same one, after it.
C27_UnsupportedLeavesRegistry ==
    (cpc = "done" /\ cRes = "False" /\ ~Supported(cKind) /\ cHad) =>
        /\ connections[cName] # NoSession
        /\ connections[cName].handle = cOld

\* C24: once cleanup() has returned the registry stays empty until a
\* connect call started after it stores a session: a connect that was
\* suspended in its transport connect or handshake when cleanup ran does
\* not register a session afterwards.
C24_NoRegistrationAfterCleanup ==
    cSawCleanup => connections = NoConnections

\* C26: whenever setup_mcp_server returns a hub, the connect for
\* "moveflow-aptos" was made and succeeded: the server is in the registry
\* with status connected, with or without a private key configured.
C26_SetupReturnsConnectedHub ==
    (setupPc = "done" /\ sRes = "hub") =>
        connections[default_server_name].status = "connected"

====
